---- MODULE Spec2Model ----
(***************************************************************************)
(* Model of the zer3ax plant-breeding chatbot.                             *)
(*                                                                         *)
(*   - the keyword extractor and the answer dispatcher of                  *)
(*     src/config/chatbot_v2/tools.py, computed on the characters of the   *)
(*     question (texts are sequences of Unicode code points);              *)
(*   - the keyword-based HTTP API of src/config/chatbot_v2/api.py;         *)
(*   - the provider-priority HTTP API of src/api/chatbot_api.py with the   *)
(*     services of src/services;                                           *)
(*   - the session HTTP API of chatbot_v2/api.py over the Chatbot class;   *)
(*   - calculate_trait_similarity and predict_hybridization of             *)
(*     src/config/chatbot_tools.py;                                        *)
(*   - repeated calls of extract_keywords;                                 *)
(*   - the ToolRegistry class of chatbot_v2/tools.py.                      *)
(***************************************************************************)
EXTENDS Integers, Sequences, FiniteSets, TLC

\* The plant catalog, in catalog order. Names are kept as code-point sequences
\* because matching is done on their characters.
PLANTS_DATA ==
  <<
    [id |-> 1,
     name |-> <<84, 114, 105, 116, 105, 99, 117, 109, 32, 97, 101, 115, 116, 105, 118, 117, 109>>,  \* "Triticum aestivum"
     commonName |-> <<66, 114, 101, 97, 100, 32, 87, 104, 101, 97, 116>>,  \* "Bread Wheat"
     genomeSize |-> 17000, droughtTolerance |-> "Moderate",
     resistance |-> [drought |-> 6, salinity |-> 4, disease |-> 7],
     optimalZone |-> "Northern", yieldPotential |-> 8,
     geneticDiversity |-> 7],
    [id |-> 2,
     name |-> <<72, 111, 114, 100, 101, 117, 109, 32, 118, 117, 108, 103, 97, 114, 101>>,  \* "Hordeum vulgare"
     commonName |-> <<66, 97, 114, 108, 101, 121>>,  \* "Barley"
     genomeSize |-> 5100, droughtTolerance |-> "High",
     resistance |-> [drought |-> 8, salinity |-> 7, disease |-> 6],
     optimalZone |-> "High Plateau", yieldPotential |-> 7,
     geneticDiversity |-> 6],
    [id |-> 3,
     name |-> <<90, 101, 97, 32, 109, 97, 121, 115>>,  \* "Zea mays"
     commonName |-> <<67, 111, 114, 110>>,  \* "Corn"
     genomeSize |-> 2300, droughtTolerance |-> "Low",
     resistance |-> [drought |-> 4, salinity |-> 3, disease |-> 5],
     optimalZone |-> "Northern", yieldPotential |-> 9,
     geneticDiversity |-> 8],
    [id |-> 4,
     name |-> <<83, 111, 114, 103, 104, 117, 109, 32, 98, 105, 99, 111, 108, 111, 114>>,  \* "Sorghum bicolor"
     commonName |-> <<83, 111, 114, 103, 104, 117, 109>>,  \* "Sorghum"
     genomeSize |-> 730, droughtTolerance |-> "Very High",
     resistance |-> [drought |-> 9, salinity |-> 6, disease |-> 7],
     optimalZone |-> "Sahara", yieldPotential |-> 7,
     geneticDiversity |-> 8],
    [id |-> 5,
     name |-> <<84, 114, 105, 116, 105, 99, 117, 109, 32, 100, 117, 114, 117, 109>>,  \* "Triticum durum"
     commonName |-> <<68, 117, 114, 117, 109, 32, 87, 104, 101, 97, 116>>,  \* "Durum Wheat"
     genomeSize |-> 12000, droughtTolerance |-> "Moderate",
     resistance |-> [drought |-> 7, salinity |-> 5, disease |-> 6],
     optimalZone |-> "High Plateau", yieldPotential |-> 7,
     geneticDiversity |-> 6],
    [id |-> 6,
     name |-> <<77, 101, 100, 105, 99, 97, 103, 111, 32, 115, 97, 116, 105, 118, 97>>,  \* "Medicago sativa"
     commonName |-> <<65, 108, 102, 97, 108, 102, 97>>,  \* "Alfalfa"
     genomeSize |-> 900, droughtTolerance |-> "Moderate",
     resistance |-> [drought |-> 7, salinity |-> 6, disease |-> 7],
     optimalZone |-> "Northern", yieldPotential |-> 8,
     geneticDiversity |-> 7]
  >>

\* The zone catalog. suitability10 is the suitability score times ten.
ZONES_DATA ==
  <<
    [name |-> "Northern", bestPlants |-> <<<<66, 114, 101, 97, 100, 32, 87, 104, 101, 97, 116>>, <<67, 111, 114, 110>>, <<65, 108, 102, 97, 108, 102, 97>>>>,
     suitability10 |-> 85],
    [name |-> "High Plateau", bestPlants |-> <<<<66, 97, 114, 108, 101, 121>>, <<68, 117, 114, 117, 109, 32, 87, 104, 101, 97, 116>>, <<83, 111, 114, 103, 104, 117, 109>>>>,
     suitability10 |-> 72],
    [name |-> "Sahara", bestPlants |-> <<<<83, 111, 114, 103, 104, 117, 109>>>>,
     suitability10 |-> 48]
  >>

\* The cross-compatibility table: key and reported success rate.
COMPATIBILITY ==
  <<
    [key |-> <<119, 104, 101, 97, 116, 95, 98, 97, 114, 108, 101, 121>>, success |-> "Low"],  \* "wheat_barley"
    [key |-> <<119, 104, 101, 97, 116, 95, 119, 104, 101, 97, 116>>, success |-> "High"],  \* "wheat_wheat"
    [key |-> <<119, 104, 101, 97, 116, 95, 114, 121, 101>>, success |-> "Medium"],  \* "wheat_rye"
    [key |-> <<99, 111, 114, 110, 95, 115, 111, 114, 103, 104, 117, 109>>, success |-> "Very Low"],  \* "corn_sorghum"
    [key |-> <<115, 97, 109, 101, 95, 122, 111, 110, 101>>, success |-> "High"]  \* "same_zone"
  >>

\* The traits that have an inheritance note.
TRAIT_INHERITANCE ==
  {"drought_tolerance", "disease_resistance", "yield", "height", "grain_quality"}

\* The zones that have breeding tips.
ZONE_BREEDING_TIPS ==
  {"Northern", "High Plateau", "Sahara"}

\* Alias table, in the insertion order of the dictionary.
PLANT_ALIASES ==
  <<
    [base |-> <<119, 104, 101, 97, 116>>,  \* "wheat"
     aliases |-> <<
       <<119, 104, 101, 97, 116>>,  \* "wheat"
       <<98, 108, 233>>,  \* "bl\xe9"
       <<1602, 1605, 1581>>,  \* "\u0642\u0645\u062d"
       <<98, 114, 101, 97, 100, 32, 119, 104, 101, 97, 116>>,  \* "bread wheat"
       <<100, 117, 114, 117, 109, 32, 119, 104, 101, 97, 116>>,  \* "durum wheat"
       <<107, 97, 109, 104>>,  \* "kamh"
       <<101, 108, 32, 107, 97, 109, 104>>,  \* "el kamh"
       <<1602, 1605, 1581, 32, 1575, 1604, 1589, 1604, 1576>>  \* "\u0642\u0645\u062d \u0627\u0644\u0635\u0644\u0628"
     >>],
    [base |-> <<98, 97, 114, 108, 101, 121>>,  \* "barley"
     aliases |-> <<
       <<98, 97, 114, 108, 101, 121>>,  \* "barley"
       <<111, 114, 103, 101>>,  \* "orge"
       <<1588, 1593, 1610, 1585>>,  \* "\u0634\u0639\u064a\u0631"
       <<99, 104, 51, 105, 114>>,  \* "ch3ir"
       <<101, 108, 32, 99, 104, 51, 105, 114>>,  \* "el ch3ir"
       <<99, 104, 97, 238, 114>>  \* "cha\xeer"
     >>],
    [base |-> <<99, 111, 114, 110>>,  \* "corn"
     aliases |-> <<
       <<99, 111, 114, 110>>,  \* "corn"
       <<109, 97, 105, 122, 101>>,  \* "maize"
       <<109, 97, 239, 115>>,  \* "ma\xefs"
       <<1584, 1585, 1577>>,  \* "\u0630\u0631\u0629"
       <<122, 101, 97>>,  \* "zea"
       <<100, 114, 97>>,  \* "dra"
       <<101, 108, 32, 100, 114, 97>>,  \* "el dra"
       <<1583, 1585, 1575>>  \* "\u062f\u0631\u0627"
     >>],
    [base |-> <<115, 111, 114, 103, 104, 117, 109>>,  \* "sorghum"
     aliases |-> <<
       <<115, 111, 114, 103, 104, 117, 109>>,  \* "sorghum"
       <<115, 111, 114, 103, 111>>,  \* "sorgo"
       <<1584, 1585, 1577, 32, 1585, 1601, 1610, 1593, 1577>>,  \* "\u0630\u0631\u0629 \u0631\u0641\u064a\u0639\u0629"
       <<109, 105, 108, 108, 101, 116>>,  \* "millet"
       <<100, 114, 97, 97>>,  \* "draa"
       <<101, 108, 32, 100, 114, 97, 97>>  \* "el draa"
     >>],
    [base |-> <<97, 108, 102, 97, 108, 102, 97>>,  \* "alfalfa"
     aliases |-> <<
       <<97, 108, 102, 97, 108, 102, 97>>,  \* "alfalfa"
       <<108, 117, 122, 101, 114, 110, 101>>,  \* "luzerne"
       <<1601, 1589, 1577>>,  \* "\u0641\u0635\u0629"
       <<108, 117, 99, 101, 114, 110, 101>>,  \* "lucerne"
       <<102, 115, 97>>,  \* "fsa"
       <<101, 108, 32, 102, 115, 97>>,  \* "el fsa"
       <<102, 101, 115, 115, 97>>,  \* "fessa"
       <<1575, 1604, 1601, 1589, 1577>>  \* "\u0627\u0644\u0641\u0635\u0629"
     >>]
  >>

\* Trait keyword table, in the insertion order of the dictionary.
trait_keywords ==
  <<
    [trait |-> "drought",
     keywords |-> <<
       <<100, 114, 111, 117, 103, 104, 116>>,  \* "drought"
       <<100, 114, 121>>,  \* "dry"
       <<115, 233, 99, 104, 101, 114, 101, 115, 115, 101>>,  \* "s\xe9cheresse"
       <<115, 101, 99>>,  \* "sec"
       <<1580, 1601, 1575, 1601>>,  \* "\u062c\u0641\u0627\u0641"
       <<106, 102, 97, 102>>,  \* "jfaf"
       <<121, 98, 101, 115>>,  \* "ybes"
       <<57, 101, 55, 116>>,  \* "9e7t"
       <<108, 97, 113, 55, 97, 116>>,  \* "laq7at"
       <<107, 97, 110, 99, 104>>  \* "kanch"
     >>],
    [trait |-> "salinity",
     keywords |-> <<
       <<115, 97, 108, 105, 110, 105, 116, 121>>,  \* "salinity"
       <<115, 97, 108, 116>>,  \* "salt"
       <<115, 97, 108, 105, 110, 105, 116, 233>>,  \* "salinit\xe9"
       <<115, 101, 108>>,  \* "sel"
       <<1605, 1604, 1608, 1581, 1577>>,  \* "\u0645\u0644\u0648\u062d\u0629"
       <<109, 101, 108, 55>>,  \* "mel7"
       <<108, 109, 101, 108, 55>>,  \* "lmel7"
       <<115, 97, 108, 116, 105>>  \* "salti"
     >>],
    [trait |-> "disease",
     keywords |-> <<
       <<100, 105, 115, 101, 97, 115, 101>>,  \* "disease"
       <<114, 101, 115, 105, 115, 116, 97, 110, 99, 101>>,  \* "resistance"
       <<109, 97, 108, 97, 100, 105, 101>>,  \* "maladie"
       <<114, 233, 115, 105, 115, 116, 97, 110, 99, 101>>,  \* "r\xe9sistance"
       <<1605, 1585, 1590>>,  \* "\u0645\u0631\u0636"
       <<1605, 1602, 1575, 1608, 1605, 1577>>,  \* "\u0645\u0642\u0627\u0648\u0645\u0629"
       <<109, 114, 97, 100, 104>>,  \* "mradh"
       <<108, 109, 114, 97, 100, 104>>,  \* "lmradh"
       <<109, 111, 117, 113, 97, 119, 97, 109, 97>>  \* "mouqawama"
     >>],
    [trait |-> "yield",
     keywords |-> <<
       <<121, 105, 101, 108, 100>>,  \* "yield"
       <<112, 114, 111, 100, 117, 99, 116, 105, 111, 110>>,  \* "production"
       <<114, 101, 110, 100, 101, 109, 101, 110, 116>>,  \* "rendement"
       <<1573, 1606, 1578, 1575, 1580>>,  \* "\u0625\u0646\u062a\u0627\u062c"
       <<105, 110, 116, 97, 106>>,  \* "intaj"
       <<112, 114, 111, 100, 117, 99, 116, 105, 111, 110>>,  \* "production"
       <<109, 114, 100, 111, 117, 100>>,  \* "mrdoud"
       <<114, 101, 110, 100, 101, 109, 101, 110, 116>>  \* "rendement"
     >>],
    [trait |-> "genome",
     keywords |-> <<
       <<103, 101, 110, 111, 109, 101>>,  \* "genome"
       <<103, 233, 110, 111, 109, 101>>,  \* "g\xe9nome"
       <<1580, 1610, 1606, 1608, 1605>>,  \* "\u062c\u064a\u0646\u0648\u0645"
       <<106, 105, 110, 111, 117, 109>>,  \* "jinoum"
       <<103, 101, 110, 101, 115>>  \* "genes"
     >>],
    [trait |-> "rainfall",
     keywords |-> <<
       <<114, 97, 105, 110>>,  \* "rain"
       <<114, 97, 105, 110, 102, 97, 108, 108>>,  \* "rainfall"
       <<112, 108, 117, 105, 101>>,  \* "pluie"
       <<112, 114, 233, 99, 105, 112, 105, 116, 97, 116, 105, 111, 110>>,  \* "pr\xe9cipitation"
       <<1571, 1605, 1591, 1575, 1585>>,  \* "\u0623\u0645\u0637\u0627\u0631"
       <<99, 104, 116, 97>>,  \* "chta"
       <<99, 104, 116, 97, 97>>,  \* "chtaa"
       <<101, 108, 32, 99, 104, 116, 97>>,  \* "el chta"
       <<108, 109, 116, 97, 114>>  \* "lmtar"
     >>],
    [trait |-> "temperature",
     keywords |-> <<
       <<116, 101, 109, 112, 101, 114, 97, 116, 117, 114, 101>>,  \* "temperature"
       <<116, 101, 109, 112>>,  \* "temp"
       <<116, 101, 109, 112, 233, 114, 97, 116, 117, 114, 101>>,  \* "temp\xe9rature"
       <<1581, 1585, 1575, 1585, 1577>>,  \* "\u062d\u0631\u0627\u0631\u0629"
       <<115, 53, 97, 110, 97>>,  \* "s5ana"
       <<98, 114, 111, 117, 100, 104>>,  \* "broudh"
       <<100, 97, 114, 106, 97>>  \* "darja"
     >>]
  >>

\* Breeding/genetics keywords.
breeding_keywords ==
  <<
    <<104, 121, 98, 114, 105, 100>>,  \* "hybrid"
    <<99, 114, 111, 115, 115>>,  \* "cross"
    <<98, 114, 101, 101, 100>>,  \* "breed"
    <<104, 121, 98, 114, 105, 100, 105, 122, 97, 116, 105, 111, 110>>,  \* "hybridization"
    <<99, 114, 111, 105, 115, 101, 109, 101, 110, 116>>,  \* "croisement"
    <<1578, 1607, 1580, 1610, 1606>>,  \* "\u062a\u0647\u062c\u064a\u0646"
    <<103, 101, 110, 101, 116, 105, 99, 115>>,  \* "genetics"
    <<105, 110, 104, 101, 114, 105, 116>>,  \* "inherit"
    <<103, 101, 110, 101>>,  \* "gene"
    <<99, 104, 114, 111, 109, 111, 115, 111, 109, 101>>,  \* "chromosome"
    <<109, 101, 110, 100, 101, 108>>,  \* "mendel"
    <<102, 49>>,  \* "f1"
    <<102, 50>>,  \* "f2"
    <<112, 111, 108, 108, 105, 110, 97, 116, 105, 111, 110>>,  \* "pollination"
    <<99, 111, 109, 112, 97, 116, 105, 98, 105, 108, 105, 116, 121>>,  \* "compatibility"
    <<98, 97, 99, 107, 99, 114, 111, 115, 115>>,  \* "backcross"
    <<109, 97, 114, 107, 101, 114>>,  \* "marker"
    <<116, 97, 104, 100, 106, 105, 110>>,  \* "tahdjin"
    <<116, 97, 104, 106, 105, 110>>,  \* "tahjin"
    <<107, 104, 97, 108, 105, 116>>,  \* "khalit"
    <<53, 97, 108, 105, 116>>,  \* "5alit"
    <<109, 105, 120>>,  \* "mix"
    <<116, 97, 122, 119, 105, 106>>,  \* "tazwij"
    <<116, 39, 122, 119, 105, 106>>  \* "t'zwij"
  >>

\* Zone keywords (NorthernWords).
NorthernWords ==
  <<
    <<110, 111, 114, 116, 104, 101, 114, 110>>,  \* "northern"
    <<110, 111, 114, 116, 104>>,  \* "north"
    <<99, 111, 97, 115, 116, 97, 108>>,  \* "coastal"
    <<110, 111, 114, 100>>,  \* "nord"
    <<99, 244, 116, 105, 101, 114>>,  \* "c\xf4tier"
    <<1588, 1605, 1575, 1604>>,  \* "\u0634\u0645\u0627\u0644"
    <<99, 104, 97, 109, 97, 108>>,  \* "chamal"
    <<99, 104, 51, 109, 97, 108>>,  \* "ch3mal"
    <<116, 101, 108, 108>>,  \* "tell"
    <<115, 97, 104, 101, 108>>  \* "sahel"
  >>

\* Zone keywords (HighPlateauWords).
HighPlateauWords ==
  <<
    <<112, 108, 97, 116, 101, 97, 117>>,  \* "plateau"
    <<104, 105, 103, 104, 32, 112, 108, 97, 116, 101, 97, 117>>,  \* "high plateau"
    <<104, 97, 117, 116, 115, 32, 112, 108, 97, 116, 101, 97, 117, 120>>,  \* "hauts plateaux"
    <<1575, 1604, 1607, 1590, 1575, 1576>>,  \* "\u0627\u0644\u0647\u0636\u0627\u0628"
    <<104, 97, 100, 104, 97, 98>>,  \* "hadhab"
    <<104, 39, 100, 104, 97, 98>>,  \* "h'dhab"
    <<104, 100, 104, 97, 98>>  \* "hdhab"
  >>

\* Zone keywords (SaharaWords).
SaharaWords ==
  <<
    <<115, 97, 104, 97, 114, 97>>,  \* "sahara"
    <<115, 111, 117, 116, 104, 101, 114, 110>>,  \* "southern"
    <<115, 111, 117, 116, 104>>,  \* "south"
    <<100, 101, 115, 101, 114, 116>>,  \* "desert"
    <<115, 117, 100>>,  \* "sud"
    <<1589, 1581, 1585, 1575, 1569>>,  \* "\u0635\u062d\u0631\u0627\u0621"
    <<1580, 1606, 1608, 1576>>,  \* "\u062c\u0646\u0648\u0628"
    <<115, 97, 104, 114, 97>>,  \* "sahra"
    <<115, 55, 97, 114, 97>>,  \* "s7ara"
    <<106, 110, 111, 117, 98>>  \* "jnoub"
  >>

\* Question-type keywords (RecommendationWords).
RecommendationWords ==
  <<
    <<98, 101, 115, 116>>,  \* "best"
    <<114, 101, 99, 111, 109, 109, 101, 110, 100>>,  \* "recommend"
    <<109, 101, 105, 108, 108, 101, 117, 114>>,  \* "meilleur"
    <<114, 101, 99, 111, 109, 109, 97, 110, 100>>,  \* "recommand"
    <<1571, 1601, 1590, 1604>>,  \* "\u0623\u0641\u0636\u0644"
    <<1606, 1589, 1581>>,  \* "\u0646\u0635\u062d"
    <<97, 55, 115, 97, 110>>,  \* "a7san"
    <<107, 104, 105, 114>>,  \* "khir"
    <<107, 104, 97, 121, 114>>,  \* "khayr"
    <<110, 115, 97, 104>>,  \* "nsah"
    <<110, 115, 105, 55, 97>>,  \* "nsi7a"
    <<110, 101, 98, 116, 97>>,  \* "nebta"
    <<110, 97, 98, 116, 97>>,  \* "nabta"
    <<122, 97, 114, 51, 97>>,  \* "zar3a"
    <<122, 114, 97, 51, 97>>,  \* "zra3a"
    <<110, 97, 98, 97, 116>>  \* "nabat"
  >>

\* Question-type keywords (RankingWords).
RankingWords ==
  <<
    <<114, 97, 110, 107>>,  \* "rank"
    <<114, 97, 110, 107, 105, 110, 103>>,  \* "ranking"
    <<112, 111, 115, 105, 116, 105, 111, 110>>,  \* "position"
    <<99, 108, 97, 115, 115, 101, 109, 101, 110, 116>>,  \* "classement"
    <<1578, 1585, 1578, 1610, 1576>>,  \* "\u062a\u0631\u062a\u064a\u0628"
    <<116, 97, 114, 116, 105, 98>>,  \* "tartib"
    <<109, 101, 114, 116, 98, 97>>  \* "mertba"
  >>

\* Question-type keywords (ComparisonWords).
ComparisonWords ==
  <<
    <<99, 111, 109, 112, 97, 114, 101>>,  \* "compare"
    <<118, 115>>,  \* "vs"
    <<118, 101, 114, 115, 117, 115>>,  \* "versus"
    <<99, 111, 109, 112, 97, 114, 101, 114>>,  \* "comparer"
    <<1605, 1602, 1575, 1585, 1606, 1577>>,  \* "\u0645\u0642\u0627\u0631\u0646\u0629"
    <<57, 97, 114, 110>>,  \* "9arn"
    <<113, 97, 114, 110>>,  \* "qarn"
    <<109, 111, 117, 113, 97, 114, 97, 110, 97>>  \* "mouqarana"
  >>

\* Question-type keywords (WhatWords).
WhatWords ==
  <<
    <<119, 104, 97, 116>>,  \* "what"
    <<116, 101, 108, 108>>,  \* "tell"
    <<97, 98, 111, 117, 116>>,  \* "about"
    <<105, 110, 102, 111>>,  \* "info"
    <<100, 101, 115, 99, 114, 105, 98, 101>>,  \* "describe"
    <<113, 117, 39, 101, 115, 116>>,  \* "qu'est"
    <<113, 117, 111, 105>>,  \* "quoi"
    <<1605, 1575, 1584, 1575>>,  \* "\u0645\u0627\u0630\u0627"
    <<1605, 1575, 32, 1607, 1608>>,  \* "\u0645\u0627 \u0647\u0648"
    <<119, 97, 99, 104>>,  \* "wach"
    <<119, 97, 115, 104>>,  \* "wash"
    <<99, 104, 107, 111, 117, 110>>,  \* "chkoun"
    <<115, 104, 107, 111, 117, 110>>,  \* "shkoun"
    <<107, 105, 102, 101, 99, 104>>,  \* "kifech"
    <<107, 105, 102, 97, 99, 104>>,  \* "kifach"
    <<51, 108, 97, 99, 104>>,  \* "3lach"
    <<51, 108, 97, 104>>  \* "3lah"
  >>

\* Question-type keywords (CharacteristicsWords).
CharacteristicsWords ==
  <<
    <<99, 104, 97, 114, 97, 99, 116, 101, 114, 105, 115, 116, 105, 99>>,  \* "characteristic"
    <<116, 114, 97, 105, 116>>,  \* "trait"
    <<112, 114, 111, 112, 101, 114, 116, 121>>,  \* "property"
    <<99, 97, 114, 97, 99, 116, 233, 114, 105, 115, 116, 105, 113, 117, 101>>,  \* "caract\xe9ristique"
    <<112, 114, 111, 112, 114, 105, 233, 116, 233>>,  \* "propri\xe9t\xe9"
    <<1582, 1589, 1575, 1574, 1589>>,  \* "\u062e\u0635\u0627\u0626\u0635"
    <<107, 104, 97, 115, 97, 50, 105, 115>>,  \* "khasa2is"
    <<107, 104, 97, 115, 97, 39, 105, 115>>,  \* "khasa'is"
    <<115, 102, 97, 116>>,  \* "sfat"
    <<115, 105, 102, 97, 116>>  \* "sifat"
  >>

\* The literal substrings answer_question looks for in the lower-cased question,
\* each under its own text as field name (a space becomes an underscore).
Lit ==
  [hybrid |-> <<104, 121, 98, 114, 105, 100>>,  \* "hybrid", line 352
   hybridization |-> <<104, 121, 98, 114, 105, 100, 105, 122, 97, 116, 105, 111, 110>>,  \* "hybridization", line 352
   cross |-> <<99, 114, 111, 115, 115>>,  \* "cross", line 363
   inherit |-> <<105, 110, 104, 101, 114, 105, 116>>,  \* "inherit", line 390
   gene |-> <<103, 101, 110, 101>>,  \* "gene", line 390
   genetics |-> <<103, 101, 110, 101, 116, 105, 99, 115>>,  \* "genetics", line 390
   method |-> <<109, 101, 116, 104, 111, 100>>,  \* "method", line 403
   technique |-> <<116, 101, 99, 104, 110, 105, 113, 117, 101>>,  \* "technique", line 403
   how_to_breed |-> <<104, 111, 119, 32, 116, 111, 32, 98, 114, 101, 101, 100>>,  \* "how to breed", line 403
   compare |-> <<99, 111, 109, 112, 97, 114, 101>>,  \* "compare", line 434
   vs |-> <<118, 115>>,  \* "vs", line 434
   versus |-> <<118, 101, 114, 115, 117, 115>>,  \* "versus", line 434
   better |-> <<98, 101, 116, 116, 101, 114>>,  \* "better", line 462
   which |-> <<119, 104, 105, 99, 104>>,  \* "which", line 462
   one |-> <<111, 110, 101>>,  \* "one", line 462
   is |-> <<105, 115>>,  \* "is", line 462
   drought |-> <<100, 114, 111, 117, 103, 104, 116>>,  \* "drought", line 475
   yield |-> <<121, 105, 101, 108, 100>>,  \* "yield", line 479
   characteristic |-> <<99, 104, 97, 114, 97, 99, 116, 101, 114, 105, 115, 116, 105, 99>>,  \* "characteristic", line 485
   traits |-> <<116, 114, 97, 105, 116, 115>>,  \* "traits", line 485
   properties |-> <<112, 114, 111, 112, 101, 114, 116, 105, 101, 115>>,  \* "properties", line 485
   ranking |-> <<114, 97, 110, 107, 105, 110, 103>>]  \* "ranking", line 507

(***************************************************************************)
(* Text primitives (Python str operations on code-point sequences).        *)
(***************************************************************************)

\* str.lower() on one code point: ASCII and Latin-1 capitals have a lowercase
\* form 32 above; every other code point of the alphabet used is unchanged.
LowerChar(c) ==
  IF (c >= 65 /\ c <= 90) \/ (c >= 192 /\ c <= 222 /\ c # 215) THEN c + 32 ELSE c

\* str.lower()
lower(s) ==
  [i \in 1..Len(s) |-> LowerChar(s[i])]

\* str.upper() on one code point (used to build upper-case inputs only).
UpperChar(c) ==
  IF (c >= 97 /\ c <= 122) \/ (c >= 224 /\ c <= 254 /\ c # 247) THEN c - 32 ELSE c

\* str.upper()
upper(s) ==
  [i \in 1..Len(s) |-> UpperChar(s[i])]

\* The code points str.split() and str.strip() treat as whitespace.
IsSpace(c) ==
  c \in {9, 10, 11, 12, 13, 28, 29, 30, 31, 32, 133, 160}

\* `k in s` for strings: k occurs in s as a contiguous substring.
ContainsSeq(k, s) ==
  \E i \in 1..(Len(s) - Len(k) + 1) : SubSeq(s, i, i + Len(k) - 1) = k

\* A text together with the positions of each code point that occurs in it.
\* The question is searched for some two hundred keywords; the positions
\* only tell where a keyword can start.
Indexed(s) ==
  [s |-> s,
   at |-> [c \in {s[i] : i \in 1..Len(s)} |-> {i \in 1..Len(s) : s[i] = c}]]

\* `k in q` for a keyword k and an indexed text q.
Contains(k, q) ==
  \/ k = <<>>
  \/ /\ k[1] \in DOMAIN q.at
     /\ \E i \in q.at[k[1]] :
          i + Len(k) - 1 <= Len(q.s) /\ SubSeq(q.s, i, i + Len(k) - 1) = k

\* any(w in q for w in words)
AnyIn(words, q) ==
  \E n \in 1..Len(words) : Contains(words[n], q)

\* Positions where a whitespace-delimited word of s starts.
WordStarts(s) ==
  {i \in 1..Len(s) : ~IsSpace(s[i]) /\ (i = 1 \/ IsSpace(s[i - 1]))}

\* len(s.split())
WordCount(s) ==
  Cardinality(WordStarts(s))

\* The end position of the word of s starting at position i.
WordEnd(s, i) ==
  CHOOSE e \in i..Len(s) :
    /\ \A j \in i..e : ~IsSpace(s[j])
    /\ (e = Len(s) \/ IsSpace(s[e + 1]))

\* s.split(): the set of whitespace-delimited words of s.
split(s) ==
  {SubSeq(s, i, WordEnd(s, i)) : i \in WordStarts(s)}

\* s.strip()
strip(s) ==
  LET ns == {i \in 1..Len(s) : ~IsSpace(s[i])}
  IN IF ns = {} THEN <<>>
     ELSE SubSeq(s, CHOOSE i \in ns : \A j \in ns : i <= j,
                    CHOOSE i \in ns : \A j \in ns : i >= j)

\* s.replace(" ", "_")
replace_space(s) ==
  [i \in 1..Len(s) |-> IF s[i] = 32 THEN 95 ELSE s[i]]

\* list(dict.fromkeys(xs)): drop later duplicates, keep first-seen order.
RECURSIVE dedupe(_)
dedupe(xs) ==
  IF xs = <<>> THEN <<>>
  ELSE LET front == dedupe(SubSeq(xs, 1, Len(xs) - 1))
           last == xs[Len(xs)]
       IN IF \E i \in 1..Len(front) : front[i] = last THEN front
          ELSE Append(front, last)

\* The elements of xs that satisfy the test, in order (list comprehension).
RECURSIVE SelectIdx(_, _)
SelectIdx(n, keep) ==
  IF n = 0 THEN <<>>
  ELSE IF n \in keep THEN Append(SelectIdx(n - 1, keep), n)
       ELSE SelectIdx(n - 1, keep)

(***************************************************************************)
(* Keyword extraction: extract_keywords.                                   *)
(***************************************************************************)

\* Per plant, the lower-cased names the loop body computes (common_lower,
\* name_lower) and their words; they depend on the catalog only.
PlantNames ==
  [n \in 1..Len(PLANTS_DATA) |->
    [common_lower |-> lower(PLANTS_DATA[n].commonName),
     name_lower |-> lower(PLANTS_DATA[n].name),
     common_words |-> split(lower(PLANTS_DATA[n].commonName)),
     name_words |-> split(lower(PLANTS_DATA[n].name))]]

\* The direct test of plant n: its lower-cased common or scientific name, or
\* any single word of either, occurs in the lower-cased question q.
PlantDirectMatch(n, q) ==
  \/ Contains(PlantNames[n].common_lower, q)
  \/ Contains(PlantNames[n].name_lower, q)
  \/ \E word \in PlantNames[n].common_words : Contains(word, q)
  \/ \E word \in PlantNames[n].name_words : Contains(word, q)

\* The alias groups that have an alias occurring in q (the test
\* any(alias in q for alias in aliases), which does not depend on the plant).
AliasGroupsIn(q) ==
  {n \in 1..Len(PLANT_ALIASES) : AnyIn(PLANT_ALIASES[n].aliases, q)}

\* The alias test of plant n: some alias group with an alias occurring in q
\* has its base name occurring in the plant's lower-cased common name.
PlantAliasMatch(n, groups) ==
  \E g \in groups : ContainsSeq(PLANT_ALIASES[g].base, PlantNames[n].common_lower)

\* Plant n is appended to the matched list.
PlantMatches(n, q, groups) ==
  PlantDirectMatch(n, q) \/ PlantAliasMatch(n, groups)

\* The matched plant list: common names in catalog order, duplicates removed.
ExtractPlants(q) ==
  LET groups == AliasGroupsIn(q)
      idx == SelectIdx(Len(PLANTS_DATA),
                       {n \in 1..Len(PLANTS_DATA) : PlantMatches(n, q, groups)})
  IN dedupe([i \in 1..Len(idx) |-> PLANTS_DATA[idx[i]].commonName])

\* The matched zone list, in the fixed order Northern, High Plateau, Sahara.
ExtractZones(q) ==
  (IF AnyIn(NorthernWords, q) THEN <<"Northern">> ELSE <<>>)
  \o (IF AnyIn(HighPlateauWords, q) THEN <<"High Plateau">> ELSE <<>>)
  \o (IF AnyIn(SaharaWords, q) THEN <<"Sahara">> ELSE <<>>)

\* The matched trait categories, in the order of the keyword table.
ExtractTraits(q) ==
  LET idx == SelectIdx(Len(trait_keywords), {n \in 1..Len(trait_keywords) : AnyIn(trait_keywords[n].keywords, q)})
  IN [i \in 1..Len(idx) |-> trait_keywords[idx[i]].trait]

\* is_breeding_question
IsBreedingQuestion(q) ==
  AnyIn(breeding_keywords, q)

\* A faulty chain: the comparison keywords are tested before the ranking
\* keywords.
BaseTypeComparisonFirst(q) ==
  IF AnyIn(RecommendationWords, q) THEN "recommendation"
  ELSE IF AnyIn(ComparisonWords, q) THEN "comparison"
  ELSE IF AnyIn(RankingWords, q) THEN "ranking"
  ELSE IF AnyIn(WhatWords, q) THEN "what"
  ELSE IF AnyIn(CharacteristicsWords, q) THEN "characteristics"
  ELSE "general"

\* The if/elif chain that classifies the question type.
BaseType(q) ==
  IF AnyIn(RecommendationWords, q) THEN "recommendation"
  ELSE IF AnyIn(RankingWords, q) THEN "ranking"
  ELSE IF AnyIn(ComparisonWords, q) THEN "comparison"
  ELSE IF AnyIn(WhatWords, q) THEN "what"
  ELSE IF AnyIn(CharacteristicsWords, q) THEN "characteristics"
  ELSE "general"

\* The override for inputs of at most two words.
ShortType(q, plants, traits, zones, qtype) ==
  IF WordCount(q.s) <= 2 /\ (plants # <<>> \/ traits # <<>> \/ zones # <<>>)
  THEN IF plants # <<>> THEN "what"
       ELSE IF traits # <<>> THEN "ranking"
       ELSE qtype
  ELSE qtype

\* A faulty extractor: the breeding flag is set, but the type keeps the value
\* of the keyword chain instead of being forced to "breeding".
ExtractFromNoOverride(question, q) ==
  LET plants == ExtractPlants(q)
      zones == ExtractZones(q)
      traits == ExtractTraits(q)
  IN [plants |-> plants, zones |-> zones, traits |-> traits,
      type |-> ShortType(q, plants, traits, zones, BaseType(q)),
      is_breeding |-> IsBreedingQuestion(q), original |-> question]

\* The body of extract_keywords after q = question.lower().
ExtractFrom(question, q) ==
  LET plants == ExtractPlants(q)
      zones == ExtractZones(q)
      traits == ExtractTraits(q)
      is_breeding_question == IsBreedingQuestion(q)
      qtype == ShortType(q, plants, traits, zones, BaseType(q))
  IN [plants |-> plants, zones |-> zones, traits |-> traits,
      type |-> IF is_breeding_question THEN "breeding" ELSE qtype,
      is_breeding |-> is_breeding_question, original |-> question]

\* extract_keywords(question)
extract_keywords(question) ==
  ExtractFrom(question, Indexed(lower(question)))

(***************************************************************************)
(* The answer dispatcher: answer_question.                                 *)
(*                                                                         *)
(* An answer is the list resp of rendered parts; "".join(resp) is empty    *)
(* exactly when the list has no part, since every part carries literal     *)
(* text.  A part records its template t and the values formatted into it:  *)
(* a plant name p, numbers n and m, a zone or label z.                     *)
(***************************************************************************)

\* One rendered f-string appended to resp.
Part(t, p, n, m, z) ==
  [t |-> t, p |-> p, n |-> n, m |-> m, z |-> z]

\* A part that formats no value.
Line(t) ==
  Part(t, <<>>, 0, 0, "")

\* return "".join(resp) taken in the named branch.
Done(branch, resp) ==
  [done |-> TRUE, branch |-> branch, text |-> resp]

\* No return statement was reached in this block.
NotDone ==
  [done |-> FALSE, branch |-> "", text |-> <<>>]

\* len(PLANTS_DATA)
NumPlants ==
  Len(PLANTS_DATA)

\* next((p for p in PLANTS_DATA if p["commonName"] == name), None): the index
\* of the first plant with that common name, 0 for None.
FindPlant(name) ==
  IF \E i \in 1..NumPlants : PLANTS_DATA[i].commonName = name
  THEN CHOOSE i \in 1..NumPlants :
         /\ PLANTS_DATA[i].commonName = name
         /\ \A j \in 1..(i - 1) : PLANTS_DATA[j].commonName # name
  ELSE 0

\* next((z for z in ZONES_DATA if z["name"] == name), None), 0 for None.
FindZone(name) ==
  IF \E i \in 1..Len(ZONES_DATA) : ZONES_DATA[i].name = name
  THEN CHOOSE i \in 1..Len(ZONES_DATA) :
         /\ ZONES_DATA[i].name = name
         /\ \A j \in 1..(i - 1) : ZONES_DATA[j].name # name
  ELSE 0

\* key=lambda p: p["resistance"]["drought"]
DroughtKey ==
  [i \in 1..NumPlants |-> PLANTS_DATA[i].resistance.drought]

\* key=lambda p: p["yieldPotential"]
YieldKey ==
  [i \in 1..NumPlants |-> PLANTS_DATA[i].yieldPotential]

\* A faulty insertion: x goes in front of the elements with an equal key, so
\* equal keys come out in reverse catalog order.
RECURSIVE InsertDescTiesFirst(_, _, _)
InsertDescTiesFirst(sorted, x, key) ==
  IF sorted = <<>> THEN <<x>>
  ELSE IF key[Head(sorted)] > key[x]
       THEN <<Head(sorted)>> \o InsertDescTiesFirst(Tail(sorted), x, key)
       ELSE <<x>> \o sorted

\* Insert catalog index x into a list sorted in descending key order, behind
\* every element whose key is not smaller (so equal keys keep catalog order).
RECURSIVE InsertDesc(_, _, _)
InsertDesc(sorted, x, key) ==
  IF sorted = <<>> THEN <<x>>
  ELSE IF key[Head(sorted)] >= key[x]
       THEN <<Head(sorted)>> \o InsertDesc(Tail(sorted), x, key)
       ELSE <<x>> \o sorted

\* sorted(PLANTS_DATA, key=..., reverse=True) as catalog indexes: a stable
\* sort, descending.
RECURSIVE SortedDesc(_, _)
SortedDesc(n, key) ==
  IF n = 0 THEN <<>> ELSE InsertDesc(SortedDesc(n - 1, key), n, key)

\* max(PLANTS_DATA, key=...): the first plant with the largest key.
MaxPlant(key) ==
  CHOOSE i \in 1..NumPlants :
    /\ \A j \in 1..NumPlants : key[j] <= key[i]
    /\ \A j \in 1..(i - 1) : key[j] < key[i]

\* A faulty rank: the index in the sorted list without the + 1.
RankOfZeroBased(sorted, i) ==
  (CHOOSE r \in 1..Len(sorted) : sorted[r] = i) - 1

\* sorted_list.index(plant) + 1
RankOf(sorted, i) ==
  CHOOSE r \in 1..Len(sorted) : sorted[r] = i /\ \A s \in 1..(r - 1) : sorted[s] # i

\* The numbered ranking lines "{i}. {name}: {score}/10".
RankingLines(t, key) ==
  LET sorted_p == SortedDesc(NumPlants, key)
  IN [i \in 1..Len(sorted_p) |-> Part(t, PLANTS_DATA[sorted_p[i]].commonName, key[sorted_p[i]], i, "")]

\* A faulty summary: the drought line is left out.
ShortPlantSummaryNoDrought(plant) ==
  << Part("short_header", plant.commonName, 0, 0, ""),
     Part("short_yield", <<>>, plant.yieldPotential, 0, ""),
     Part("short_zone", <<>>, 0, 0, plant.optimalZone),
     Part("short_genome", <<>>, plant.genomeSize, 0, "") >>

\* The compact summary of the short-input branch.
ShortPlantSummary(plant) ==
  << Part("short_header", plant.commonName, 0, 0, ""),
     Part("short_drought", <<>>, plant.resistance.drought, 0, ""),
     Part("short_yield", <<>>, plant.yieldPotential, 0, ""),
     Part("short_zone", <<>>, 0, 0, plant.optimalZone),
     Part("short_genome", <<>>, plant.genomeSize, 0, "") >>

\* A faulty usage help: the line that lists the plant names is missing.
ShortHelpWithoutPlants ==
  << Line("short_help_1"), Line("short_help_2"), Line("short_help_3"),
     Line("short_help_4") >>

\* The usage help of the short-input branch.
ShortHelp ==
  << Line("short_help_1"), Line("short_help_2"), Line("short_help_3"),
     Line("short_help_4"), Line("short_help_plants") >>

\* SINGLE WORD OR FRAGMENT block.
ShortBranch(question, kw) ==
  IF WordCount(strip(question)) <= 2
  THEN IF kw.plants # <<>> /\ kw.traits = <<>>
       THEN LET plant == FindPlant(kw.plants[1])
            IN IF plant # 0
               THEN Done("short_plant", ShortPlantSummary(PLANTS_DATA[plant]))
               ELSE NotDone
       ELSE IF kw.traits # <<>> /\ kw.plants = <<>>
       THEN IF kw.traits[1] = "drought"
            THEN Done("short_drought_ranking",
                      <<Line("short_drought_title")>> \o RankingLines("rank_line", DroughtKey))
            ELSE IF kw.traits[1] = "yield"
            THEN Done("short_yield_ranking",
                      <<Line("short_yield_title")>> \o RankingLines("rank_line", YieldKey))
            ELSE NotDone
       ELSE IF kw.plants = <<>> /\ kw.traits = <<>> /\ kw.zones = <<>>
       THEN Done("short_help", ShortHelp)
       ELSE NotDone
  ELSE NotDone

\* BREEDING_KNOWLEDGE['compatibility'].get(key): index of the entry, 0 for None.
CompatGet(key) ==
  IF \E i \in 1..Len(COMPATIBILITY) : COMPATIBILITY[i].key = key
  THEN CHOOSE i \in 1..Len(COMPATIBILITY) : COMPATIBILITY[i].key = key
  ELSE 0

\* f"{p1_name}_{p2_name}" with p_name = plant.lower().replace(" ", "_")
CompatKey(plant1, plant2) ==
  replace_space(lower(plant1)) \o <<95>> \o replace_space(lower(plant2))

\* The crossing-compatibility answer for the first two matched plants.
CrossAnswer(kw) ==
  LET compat == CompatGet(CompatKey(kw.plants[1], kw.plants[2]))
      p1 == FindPlant(kw.plants[1])
      p2 == FindPlant(kw.plants[2])
  IN IF compat # 0
     THEN << Part("cross_table_header", kw.plants[1] \o <<32, 215, 32>> \o kw.plants[2], 0, 0, ""),
             Part("cross_success", <<>>, 0, 0, COMPATIBILITY[compat].success),
             Part("cross_notes", <<>>, compat, 0, "") >>
     ELSE IF p1 # 0 /\ p2 # 0
     THEN IF PLANTS_DATA[p1].optimalZone = PLANTS_DATA[p2].optimalZone
          THEN << Part("cross_header", kw.plants[1] \o <<32, 215, 32>> \o kw.plants[2], 0, 0, ""),
                  Part("cross_same_zone", <<>>, 0, 0, PLANTS_DATA[p1].optimalZone),
                  Part("cross_combined_drought", <<>>,
                       (PLANTS_DATA[p1].resistance.drought + PLANTS_DATA[p2].resistance.drought) \div 2, 0, "") >>
          ELSE << Part("cross_header", kw.plants[1] \o <<32, 215, 32>> \o kw.plants[2], 0, 0, ""),
                  Line("cross_different_zones"), Line("cross_requires") >>
     ELSE <<>>

\* BREEDING/HYBRIDIZATION block (entered when kw["is_breeding"]).
BreedingBranch(q, kw) ==
  IF ~kw.is_breeding THEN NotDone
  ELSE IF Contains(Lit.hybrid, q) \/ Contains(Lit.hybridization, q)
  THEN Done("breeding_hybrid",
            << Line("hybrid_title"), Line("hybrid_definition"), Line("hybrid_types"),
               Part("hybrid_type", <<>>, 1, 0, ""), Part("hybrid_type", <<>>, 2, 0, ""),
               Part("hybrid_type", <<>>, 3, 0, "") >>
            \o (IF kw.plants # <<>> THEN <<Part("hybrid_for", kw.plants[1], 0, 0, "")>> ELSE <<>>))
  ELSE IF Contains(Lit.cross, q) /\ Len(kw.plants) >= 2
  THEN Done("breeding_cross", CrossAnswer(kw))
  ELSE IF Contains(Lit.inherit, q) \/ Contains(Lit.gene, q) \/ Contains(Lit.genetics, q)
  THEN Done("breeding_genetics",
            <<Line("genetics_title")>>
            \o (IF kw.traits # <<>> /\ kw.traits[1] \in TRAIT_INHERITANCE
                THEN << Part("inheritance_title", <<>>, 0, 0, kw.traits[1]),
                        Part("inheritance_text", <<>>, 0, 0, kw.traits[1]) >>
                ELSE <<>>)
            \o << Line("genetics_concepts"), Part("genetics_concept", <<>>, 1, 0, ""),
                  Part("genetics_concept", <<>>, 2, 0, ""), Part("genetics_concept", <<>>, 3, 0, ""),
                  Part("genetics_concept", <<>>, 4, 0, ""), Part("genetics_concept", <<>>, 5, 0, "") >>)
  ELSE IF Contains(Lit.method, q) \/ Contains(Lit.technique, q) \/ Contains(Lit.how_to_breed, q)
  THEN Done("breeding_methods",
            << Line("methods_title"), Part("method", <<>>, 1, 0, ""), Part("method", <<>>, 2, 0, ""),
               Part("method", <<>>, 3, 0, ""), Part("method", <<>>, 4, 0, ""),
               Part("method", <<>>, 5, 0, ""), Line("timeline_title"),
               Part("timeline", <<>>, 1, 0, ""), Part("timeline", <<>>, 2, 0, ""),
               Part("timeline", <<>>, 3, 0, ""), Part("timeline", <<>>, 4, 0, "") >>)
  ELSE IF kw.zones # <<>> /\ kw.zones[1] \in ZONE_BREEDING_TIPS
  THEN Done("breeding_zone",
            << Part("zone_breeding_title", <<>>, 0, 0, kw.zones[1]),
               Part("zone_breeding_priorities", <<>>, 0, 0, kw.zones[1]),
               Part("zone_breeding_crosses", <<>>, 0, 0, kw.zones[1]),
               Part("zone_breeding_challenges", <<>>, 0, 0, kw.zones[1]) >>)
  ELSE Done("breeding_tips",
            << Line("tips_title"), Line("tips_goals"), Line("tips_ask"), Line("tips_1"),
               Line("tips_2"), Line("tips_3"), Line("tips_4") >>)

\* COMPARISON block.
ComparisonBranch(q, kw) ==
  IF /\ (Contains(Lit.compare, q) \/ Contains(Lit.vs, q) \/ Contains(Lit.versus, q)
          \/ kw.type = "comparison")
     /\ Len(kw.plants) >= 2
  THEN LET i1 == FindPlant(kw.plants[1])
           i2 == FindPlant(kw.plants[2])
       IN IF i1 # 0 /\ i2 # 0
          THEN LET p1 == PLANTS_DATA[i1]
                   p2 == PLANTS_DATA[i2]
               IN Done("comparison",
                    << Part("cmp_title", p1.commonName \o <<32, 118, 115, 32>> \o p2.commonName, 0, 0, ""),
                       Part("cmp_name", p1.commonName, 1, 0, ""),
                       Part("cmp_drought", <<>>, p1.resistance.drought, 1, ""),
                       Part("cmp_yield", <<>>, p1.yieldPotential, 1, ""),
                       Part("cmp_zone", <<>>, 0, 1, p1.optimalZone),
                       Part("cmp_name", p2.commonName, 2, 0, ""),
                       Part("cmp_drought", <<>>, p2.resistance.drought, 2, ""),
                       Part("cmp_yield", <<>>, p2.yieldPotential, 2, ""),
                       Part("cmp_zone", <<>>, 0, 2, p2.optimalZone),
                       Part("cmp_drought_winner",
                            IF p1.resistance.drought > p2.resistance.drought
                            THEN p1.commonName ELSE p2.commonName, 0, 0, ""),
                       Part("cmp_yield_winner",
                            IF p1.yieldPotential > p2.yieldPotential
                            THEN p1.commonName ELSE p2.commonName, 0, 0, "") >>)
          ELSE NotDone
  ELSE NotDone

\* A faulty partner list: the plant asked about is not left out.
SimilarZoneWithSelf(plant) ==
  LET all == SelectIdx(NumPlants,
                {n \in 1..NumPlants :
                   PLANTS_DATA[n].optimalZone = PLANTS_DATA[plant].optimalZone})
  IN SubSeq(all, 1, IF Len(all) < 3 THEN Len(all) ELSE 3)

\* [p for p in PLANTS_DATA if same zone and another name][:3], as indexes.
SimilarZone(plant) ==
  LET all == SelectIdx(NumPlants,
                {n \in 1..NumPlants :
                   /\ PLANTS_DATA[n].optimalZone = PLANTS_DATA[plant].optimalZone
                   /\ PLANTS_DATA[n].commonName # PLANTS_DATA[plant].commonName})
  IN SubSeq(all, 1, IF Len(all) < 3 THEN Len(all) ELSE 3)

\* BETTER/WHICH block.
BetterBranch(q, kw) ==
  IF Contains(Lit.better, q)
     \/ (Contains(Lit.which, q) /\ (Contains(Lit.one, q) \/ Contains(Lit.is, q)))
  THEN IF kw.plants # <<>>
       THEN LET plant == FindPlant(kw.plants[1])
            IN IF plant # 0
               THEN LET similar_zone == SimilarZone(plant)
                    IN Done("better_plant",
                         << Part("better_for", PLANTS_DATA[plant].commonName, 0, 0, ""),
                            Line("better_partners") >>
                         \o [i \in 1..Len(similar_zone) |->
                               Part("better_alternative", PLANTS_DATA[similar_zone[i]].commonName,
                                    PLANTS_DATA[similar_zone[i]].yieldPotential, 0,
                                    PLANTS_DATA[similar_zone[i]].optimalZone)])
               ELSE NotDone
       ELSE IF Contains(Lit.drought, q)
       THEN Done("better_drought",
                 <<Part("best_drought_check", PLANTS_DATA[MaxPlant(DroughtKey)].commonName,
                        DroughtKey[MaxPlant(DroughtKey)], 0, "")>>)
       ELSE IF Contains(Lit.yield, q)
       THEN Done("better_yield",
                 <<Part("best_yield_check", PLANTS_DATA[MaxPlant(YieldKey)].commonName,
                        YieldKey[MaxPlant(YieldKey)], 0, "")>>)
       ELSE NotDone
  ELSE NotDone

\* CHARACTERISTIC/TRAIT block.
CharacteristicsBranch(q, kw) ==
  IF Contains(Lit.characteristic, q) \/ Contains(Lit.traits, q) \/ Contains(Lit.properties, q)
  THEN IF kw.plants # <<>>
       THEN LET i == FindPlant(kw.plants[1])
            IN IF i # 0
               THEN LET plant == PLANTS_DATA[i]
                    IN Done("characteristics_plant",
                         << Part("char_title", plant.commonName, 0, 0, ""),
                            Part("char_genome", <<>>, plant.genomeSize, 0, ""),
                            Part("char_climate", <<>>, plant.id, 0, ""),
                            Part("char_drought", <<>>, plant.resistance.drought, 0, ""),
                            Part("char_salinity", <<>>, plant.resistance.salinity, 0, ""),
                            Part("char_disease", <<>>, plant.resistance.disease, 0, ""),
                            Part("char_yield", <<>>, plant.yieldPotential, 0, ""),
                            Part("char_zone", <<>>, 0, 0, plant.optimalZone) >>)
               ELSE NotDone
       ELSE Done("characteristics_generic",
                 << Line("char_generic_1"), Line("char_generic_2"), Line("char_generic_3"),
                    Line("char_generic_4") >>)
  ELSE NotDone

\* RANKING block ("what is the ranking of X").
RankingBranch(q, kw) ==
  IF Contains(Lit.ranking, q) /\ kw.plants # <<>>
  THEN LET plant == FindPlant(kw.plants[1])
       IN IF plant # 0
          THEN LET drought_rank == RankOf(SortedDesc(NumPlants, DroughtKey), plant)
                   yield_rank == RankOf(SortedDesc(NumPlants, YieldKey), plant)
               IN Done("ranking_plant",
                    << Part("rank_title", PLANTS_DATA[plant].commonName, 0, 0, ""),
                       Part("rank_drought", <<>>, drought_rank, PLANTS_DATA[plant].resistance.drought, ""),
                       Part("rank_yield", <<>>, yield_rank, PLANTS_DATA[plant].yieldPotential, ""),
                       Part("rank_salinity", <<>>, PLANTS_DATA[plant].resistance.salinity, 0, ""),
                       Part("rank_disease", <<>>, PLANTS_DATA[plant].resistance.disease, 0, "") >>)
          ELSE NotDone
  ELSE NotDone

\* The final if/elif cascade; it appends to resp and does not return.
CascadeResp(q, kw) ==
  IF kw.plants # <<>>
  THEN LET i == FindPlant(kw.plants[1])
       IN IF i # 0
          THEN LET plant == PLANTS_DATA[i]
               IN << Part("plant_title", plant.commonName, plant.id, 0, ""),
                     Part("plant_genome", <<>>, plant.genomeSize, 0, ""),
                     Part("plant_climate", <<>>, plant.id, 0, ""),
                     Part("plant_drought", <<>>, plant.resistance.drought, 0, plant.droughtTolerance),
                     Part("plant_salinity", <<>>, plant.resistance.salinity, 0, ""),
                     Part("plant_yield", <<>>, plant.yieldPotential, 0, ""),
                     Part("plant_zone", <<>>, 0, 0, plant.optimalZone) >>
          ELSE <<>>
  ELSE IF kw.zones # <<>>
  THEN LET z == FindZone(kw.zones[1])
       IN IF z # 0
          THEN << Part("zone_title", <<>>, 0, 0, ZONES_DATA[z].name),
                  Part("zone_rainfall", <<>>, 0, 0, ZONES_DATA[z].name),
                  Part("zone_temperature", <<>>, 0, 0, ZONES_DATA[z].name),
                  Part("zone_best_plants", <<>>, Len(ZONES_DATA[z].bestPlants), 0, ZONES_DATA[z].name),
                  Part("zone_suitability", <<>>, ZONES_DATA[z].suitability10, 0, "") >>
          ELSE <<>>
  ELSE IF kw.type = "ranking"
  THEN IF \E n \in 1..Len(kw.traits) : kw.traits[n] = "drought"
       THEN <<Line("drought_rankings_title")>> \o RankingLines("rank_line", DroughtKey)
       ELSE IF \E n \in 1..Len(kw.traits) : kw.traits[n] = "yield"
       THEN <<Line("yield_rankings_title")>> \o RankingLines("rank_line", YieldKey)
       ELSE <<>>
  ELSE IF kw.type = "recommendation"
  THEN IF Contains(Lit.drought, q)
       THEN <<Part("best_for_drought", PLANTS_DATA[MaxPlant(DroughtKey)].commonName,
                   DroughtKey[MaxPlant(DroughtKey)], 0, "")>>
       ELSE IF kw.zones # <<>>
       THEN LET z == FindZone(kw.zones[1])
            IN IF z # 0
               THEN <<Part("recommended_for", <<>>, Len(ZONES_DATA[z].bestPlants), 0, ZONES_DATA[z].name)>>
               ELSE <<>>
       ELSE <<>>
  ELSE IF kw.traits # <<>>
  THEN IF kw.traits[1] = "drought"
       THEN <<Line("short_drought_title")>> \o RankingLines("dash_line", DroughtKey)
       ELSE IF kw.traits[1] = "yield"
       THEN <<Line("short_yield_title")>> \o RankingLines("dash_line", YieldKey)
       ELSE <<>>
  ELSE <<>>

\* The label of the cascade arm that was taken.
CascadeArm(kw) ==
  IF kw.plants # <<>> THEN "plant"
  ELSE IF kw.zones # <<>> THEN "zone"
  ELSE IF kw.type = "ranking" THEN "trait_ranking"
  ELSE IF kw.type = "recommendation" THEN "recommendation"
  ELSE IF kw.traits # <<>> THEN "trait"
  ELSE "none"

\* The static help text of the FALLBACK block.
FallbackHelp ==
  << Line("help_1"), Line("help_plant_info"), Line("help_rankings"), Line("help_characteristics"),
     Line("help_comparisons"), Line("help_best"), Line("help_available") >>

\* A faulty ending: the cascade's text is returned without the `if not resp:`
\* test.
FinalBranchNoFallback(q, kw) ==
  Done(CascadeArm(kw), CascadeResp(q, kw))

\* The cascade followed by `if not resp:` and the final return.
FinalBranch(q, kw) ==
  LET resp == CascadeResp(q, kw)
  IN IF resp = <<>> THEN Done("fallback", FallbackHelp)
     ELSE Done(CascadeArm(kw), resp)

\* The body of answer_question after kw = extract_keywords(question) and
\* q = question.lower(): the blocks in order; the first return wins.
AnswerFrom(question, q, kw) ==
  LET r1 == ShortBranch(question, kw)
      r2 == BreedingBranch(q, kw)
      r3 == ComparisonBranch(q, kw)
      r4 == BetterBranch(q, kw)
      r5 == CharacteristicsBranch(q, kw)
      r6 == RankingBranch(q, kw)
  IN IF r1.done THEN r1
     ELSE IF r2.done THEN r2
     ELSE IF r3.done THEN r3
     ELSE IF r4.done THEN r4
     ELSE IF r5.done THEN r5
     ELSE IF r6.done THEN r6
     ELSE FinalBranch(q, kw)

\* answer_question(question)
answer_question(question) ==
  AnswerFrom(question, Indexed(lower(question)), extract_keywords(question))

\* The openings a question may start with (the empty opening included).
LeadIns ==
  <<
    <<>>,  \* ""
    <<99, 111, 109, 112, 97, 114, 101>>,  \* "compare"
    <<99, 114, 111, 115, 115>>,  \* "cross"
    <<104, 121, 98, 114, 105, 100, 32, 111, 102>>,  \* "hybrid of"
    <<104, 111, 119, 32, 116, 111, 32, 105, 110, 104, 101, 114, 105, 116>>,  \* "how to inherit"
    <<98, 114, 101, 101, 100, 105, 110, 103, 32, 109, 101, 116, 104, 111, 100, 32, 102, 111, 114>>,  \* "breeding method for"
    <<119, 104, 105, 99, 104, 32, 111, 110, 101, 32, 105, 115, 32, 98, 101, 116, 116, 101, 114, 32, 102, 111, 114>>,  \* "which one is better for"
    <<119, 104, 97, 116, 32, 97, 114, 101, 32, 116, 104, 101, 32, 99, 104, 97, 114, 97, 99, 116, 101, 114, 105, 115, 116, 105, 99, 115, 32, 111, 102>>,  \* "what are the characteristics of"
    <<119, 104, 97, 116, 32, 105, 115, 32, 116, 104, 101, 32, 114, 97, 110, 107, 105, 110, 103, 32, 111, 102>>,  \* "what is the ranking of"
    <<98, 101, 115, 116, 32, 102, 111, 114>>,  \* "best for"
    <<109, 101, 105, 108, 108, 101, 117, 114, 32, 112, 111, 117, 114, 32, 115, 233, 99, 104, 101, 114, 101, 115, 115, 101>>,  \* "meilleur pour s\xe9cheresse"
    <<116, 101, 108, 108, 32, 109, 101, 32, 97, 98, 111, 117, 116, 32, 116, 104, 101>>  \* "tell me about the"
  >>

\* The words a question may continue with: plant names and aliases, trait
\* words, a zone word, a comparison word, a breeding word and a word that
\* matches nothing.
Subjects ==
  <<
    <<119, 104, 101, 97, 116>>,  \* "wheat"
    <<98, 97, 114, 108, 101, 121>>,  \* "barley"
    <<99, 111, 114, 110>>,  \* "corn"
    <<115, 111, 114, 103, 104, 117, 109>>,  \* "sorghum"
    <<100, 114, 97, 97>>,  \* "draa"
    <<97, 108, 102, 97, 108, 102, 97>>,  \* "alfalfa"
    <<100, 117, 114, 117, 109>>,  \* "durum"
    <<100, 114, 111, 117, 103, 104, 116>>,  \* "drought"
    <<121, 105, 101, 108, 100>>,  \* "yield"
    <<115, 97, 108, 105, 110, 105, 116, 121>>,  \* "salinity"
    <<115, 97, 104, 97, 114, 97>>,  \* "sahara"
    <<113, 97, 114, 110>>,  \* "qarn"
    <<104, 121, 98, 114, 105, 100>>,  \* "hybrid"
    <<103>>  \* "g"
  >>

(***************************************************************************)
(* State.  The repository holds three HTTP front ends; each is checked     *)
(* under a specification of its own over the variables below, and the      *)
(* variables of the other front ends keep their initial value.             *)
(***************************************************************************)
VARIABLES
  message,        \* keyword API: the text the client is composing
  nwords,         \* keyword API: how many subject words the text holds
  lowered,        \* dispatcher: the lower-cased question, indexed by code point
  intent,         \* dispatcher: what extract_keywords returned (kw)
  answered,       \* dispatcher: what answer_question returned, and from which block
  reply,          \* keyword API: the HTTP reply
  env,            \* chatbot_api: which packages and keys the process found
  claude_service, \* chatbot_api: the module-level ClaudeChatbotService
  gemini_service, \* chatbot_api: the module-level GeminiService
  api_request,    \* chatbot_api: the request served last
  called,         \* chatbot_api: the chat function the last chat request called
  api_reply,      \* chatbot_api: the HTTP reply to api_request
  sessions,       \* session API: session id -> conversation_history of its Chatbot
  threads,        \* session API: the chat requests in progress, per worker thread
  nchats,         \* session API: how many chat requests were admitted
  sess_request,   \* session API: the request (or request step) served last
  sess_reply,     \* session API: the HTTP reply sent last
  probe           \* function checks: the inputs of the calls and what each returned

kwVars == <<message, nwords, lowered, intent, answered, reply>>
apiVars == <<env, claude_service, gemini_service, api_request, called, api_reply>>
sessVars == <<sessions, threads, nchats, sess_request, sess_reply>>
vars == <<message, nwords, lowered, intent, answered, reply,
          env, claude_service, gemini_service, api_request, called, api_reply,
          sessions, threads, nchats, sess_request, sess_reply, probe>>

\* The value of reply before any request.
NoReply ==
  [status |-> 0, success |-> FALSE, kind |-> "none", branch |-> "", text |-> <<>>]

\* The value of intent before any chat.
NoIntent ==
  [plants |-> <<>>, zones |-> <<>>, traits |-> <<>>, type |-> "none",
   is_breeding |-> FALSE, original |-> <<>>]

\* A service object that was not created (None).
NoService ==
  [up |-> FALSE, conversation_history |-> <<>>, chat_session |-> "None"]

\* The value of api_request before any request.
NoRequest ==
  [op |-> "none"]

\* A request of the session API: the operation, the step of it that ran, and
\* the session id it resolved to.
SessRequest(op, step, session_id) ==
  [op |-> op, step |-> step, session_id |-> session_id]

\* The value of api_reply / sess_reply before any request.
NoApiReply ==
  [kind |-> "none", status |-> 0, success |-> FALSE]

\* The idle values of each front end's variables.
KwIdle ==
  /\ message = <<>>
  /\ nwords = 0
  /\ lowered = Indexed(<<>>)
  /\ intent = NoIntent
  /\ answered = NotDone
  /\ reply = NoReply

ApiIdle ==
  /\ env = [anthropic_installed |-> FALSE, anthropic_key |-> FALSE, genai_installed |-> FALSE]
  /\ claude_service = NoService
  /\ gemini_service = NoService
  /\ api_request = NoRequest
  /\ called = "none"
  /\ api_reply = NoApiReply

\* The session ids clients use; "default" is what a request without session_id
\* gets.
SessionIds ==
  {"default", "lab"}

\* A session id that has no entry in the sessions dictionary.
NoSession ==
  [created |-> FALSE, conversation_history |-> <<>>]

SessIdle ==
  /\ sessions = [s \in SessionIds |-> NoSession]
  /\ threads = <<>>
  /\ nchats = 0
  /\ sess_request = SessRequest("none", "", "default")
  /\ sess_reply = NoApiReply

AliasIdle ==
  probe = [stage |-> 0]

(***************************************************************************)
(* Request bodies (request.json).                                          *)
(***************************************************************************)

\* The JSON body null: request.json is None.
NullBody ==
  [json |-> "null", keys |-> {}, message |-> "", session_id |-> "default",
   conversation_history |-> <<>>, parameters |-> "none"]

\* A JSON object with the given keys; a field whose key is absent is not read.
ObjectBody(keys, message_text, session_id, conversation_history) ==
  [json |-> "object", keys |-> keys, message |-> message_text, session_id |-> session_id,
   conversation_history |-> conversation_history, parameters |-> "none"]

\* The bodies that carry no message: null, {} and an object with other keys
\* only.
BodiesWithoutMessage ==
  {NullBody, ObjectBody({}, "", "default", <<>>)}
  \cup {ObjectBody({"session_id"}, "", s, <<>>) : s \in SessionIds}

\* `not data`: None and the empty dictionary are falsy.
Falsy(data) ==
  data.json = "null" \/ data.keys = {}

\* `not data or "message" not in data`, the guard of the two chatbot_v2 APIs.
MessageMissing(data) ==
  Falsy(data) \/ "message" \notin data.keys

(***************************************************************************)
(* The keyword API (src/src/config/chatbot_v2/api.py): POST /api/chat      *)
(* answers with answer_question.                                           *)
(***************************************************************************)

\* The largest number of subject words in one question.
MaxSubjects == 2

\* chat(): the reply to a body, with the locals q, kw and response of
\* answer_question kept in the variables of those names.
KwChatHandler(data) ==
  IF MessageMissing(data)
  THEN /\ reply' = [status |-> 400, success |-> FALSE, kind |-> "chat",
                    branch |-> "", text |-> <<>>]
       /\ UNCHANGED <<lowered, intent, answered>>
  ELSE /\ lowered' = Indexed(lower(data.message))
       /\ intent' = ExtractFrom(data.message, lowered')
       /\ answered' = AnswerFrom(data.message, lowered', intent')
       /\ reply' = [status |-> 200, success |-> TRUE, kind |-> "chat",
                    branch |-> answered'.branch, text |-> answered'.text]

\* The client types one more word.
AddWord(w) ==
  /\ nwords < MaxSubjects
  /\ reply = NoReply
  /\ message' = (IF message = <<>> THEN w ELSE message \o <<32>> \o w)
  /\ nwords' = nwords + 1
  /\ UNCHANGED <<lowered, intent, answered, reply, apiVars, sessVars, probe>>

\* The ways a client types its text: as composed (lower case), in capitals,
\* or with a capital first letter.
Typings ==
  {"typed", "capitals", "capitalised"}

\* The text as sent under a typing.
Typed(text, typing) ==
  IF typing = "capitals" THEN upper(text)
  ELSE IF typing = "capitalised" /\ text # <<>> THEN <<UpperChar(text[1])>> \o Tail(text)
  ELSE text

\* POST /api/chat with {"message": text}.
KwChat(typing) ==
  /\ reply = NoReply
  /\ KwChatHandler(ObjectBody({"message"}, Typed(message, typing), "default", <<>>))
  /\ UNCHANGED <<message, nwords, apiVars, sessVars, probe>>

\* POST /api/chat with a body that carries no message.
KwChatNoMessage(data) ==
  /\ reply = NoReply
  /\ KwChatHandler(data)
  /\ UNCHANGED <<message, nwords, apiVars, sessVars, probe>>

Init ==
  /\ message \in {LeadIns[i] : i \in 1..Len(LeadIns)}
  /\ nwords = 0
  /\ lowered = Indexed(<<>>)
  /\ intent = NoIntent
  /\ answered = NotDone
  /\ reply = NoReply
  /\ ApiIdle /\ SessIdle /\ AliasIdle

Next ==
  \/ \E i \in 1..Len(Subjects) : AddWord(Subjects[i])
  \/ \E typing \in Typings : KwChat(typing)
  \/ \E data \in BodiesWithoutMessage : KwChatNoMessage(data)

Spec == Init /\ [][Next]_vars

(***************************************************************************)
(* The provider API (src/src/api/chatbot_api.py) and the services it       *)
(* calls.                                                                  *)
(***************************************************************************)

\* The public names src/src/config/chatbot_tools.py binds at module level.
ChatbotToolsModule ==
  {"SAMPLE_PLANTS", "search_plants", "get_plant_details", "calculate_trait_similarity",
   "get_plants_by_zone", "predict_hybridization", "get_zone_statistics",
   "get_recommendations", "generate_detailed_report", "chatbot_tools", "get_tool",
   "execute_tool"}

\* from config.chatbot_tools import <names>: ImportError unless the module
\* binds every one of them.
ImportRaises(names) ==
  ~(names \subseteq ChatbotToolsModule)

\* The keys of the chatbot_tools registry.
RegisteredTools ==
  {"search_plants", "get_plant_details", "calculate_trait_similarity", "get_plants_by_zone",
   "predict_hybridization", "get_zone_statistics", "get_recommendations",
   "generate_detailed_report"}

\* The tool names a client asks for: the registered ones and two that are not.
ToolNames ==
  RegisteredTools \cup {"get_zone_details", "no_such_tool"}

\* What the process finds when it starts: the anthropic package, the
\* ANTHROPIC_API_KEY variable, the google-generativeai package.
Envs ==
  [anthropic_installed : BOOLEAN, anthropic_key : BOOLEAN, genai_installed : BOOLEAN]

\* `claude_service = ClaudeChatbotService()` succeeds: the module imports
\* (CLAUDE_AVAILABLE) and the constructor finds a key.
ClaudeInitialises(e) ==
  e.anthropic_installed /\ e.anthropic_key

\* A faulty start-up: Gemini is created whether or not Claude was.
GeminiInitialisesAlways(e, claude_up) ==
  e.genai_installed

\* `if not claude_service: gemini_service = GeminiService()` succeeds.
GeminiInitialises(e, claude_up) ==
  ~claude_up /\ e.genai_installed

\* One entry of a conversation history.
Entry(role, content) ==
  [role |-> role, content |-> content]

\* The histories a client of this API sends along: none, or an earlier
\* exchange that ends with the typing indicator.
ApiHistories ==
  {<<>>, <<Entry("user", "earlier question"), Entry("assistant", "Thinking...")>>}

\* The message texts a client of this API sends: "" and "wheat".
ApiMessages ==
  {"", "wheat"}

\* The chat bodies: those without message, and objects with message and
\* conversation_history.
ApiChatBodies ==
  BodiesWithoutMessage
  \cup {ObjectBody({"message", "conversation_history"}, m, "default", h) :
          m \in ApiMessages, h \in ApiHistories}

\* The tool bodies: null, {} and {"parameters": ...} with arguments the tool
\* takes or with arguments it does not take.
ToolBodies ==
  {NullBody, ObjectBody({}, "", "default", <<>>)}
  \cup {[ObjectBody({"parameters"}, "", "default", <<>>) EXCEPT !.parameters = p] :
          p \in {"valid", "unexpected"}}

\* ClaudeChatbotService.chat: the conversion loop over conversation_history
\* (every role other than "user" becomes "assistant"; entries without
\* content and typing indicators are skipped), or a copy of the internal
\* history when none was supplied.
ClaudeMessages(service, conversation_history) ==
  IF conversation_history # <<>>
  THEN LET kept == SelectIdx(Len(conversation_history),
                             {i \in 1..Len(conversation_history) :
                                /\ conversation_history[i].content # ""
                                /\ conversation_history[i].content # "Thinking..."})
       IN [i \in 1..Len(kept) |->
             Entry(IF conversation_history[kept[i]].role = "user" THEN "user" ELSE "assistant",
                   conversation_history[kept[i]].content)]
  ELSE service.conversation_history

\* A faulty chat: the internal history is replaced before the provider is
\* called.
ClaudeChatAssignsFirst(service, user_message, conversation_history, outcome) ==
  LET messages == Append(ClaudeMessages(service, conversation_history), Entry("user", user_message))
  IN IF ImportRaises({"COMPREHENSIVE_PLANTS", "ALGERIA_ZONES"}) \/ outcome = "raise"
     THEN [raised |-> TRUE, response |-> "",
           service |-> [service EXCEPT !.conversation_history = messages]]
     ELSE [raised |-> FALSE, response |-> "provider text",
           service |-> [service EXCEPT !.conversation_history =
                                          Append(messages, Entry("assistant", "provider text"))]]

\* ClaudeChatbotService.chat.  The arguments of messages.create are evaluated
\* first, get_system_prompt() among them, whose import precedes the remote
\* call; nothing in chat catches an exception.
ClaudeChat(service, user_message, conversation_history, outcome) ==
  LET messages == Append(ClaudeMessages(service, conversation_history), Entry("user", user_message))
  IN IF ImportRaises({"COMPREHENSIVE_PLANTS", "ALGERIA_ZONES"}) \/ outcome = "raise"
     THEN [raised |-> TRUE, response |-> "", service |-> service]
     ELSE [raised |-> FALSE, response |-> "provider text",
           service |-> [service EXCEPT !.conversation_history =
                                          Append(messages, Entry("assistant", "provider text"))]]

\* GeminiService.chat: the whole body is inside try/except, which returns the
\* fallback template.
GeminiChat(service, user_message, conversation_history, outcome) ==
  LET started == IF service.chat_session = "None" \/ conversation_history = <<>>
                 THEN "fresh" ELSE "seeded"
  IN [raised |-> FALSE,
      response |-> IF outcome = "ok" THEN "provider text" ELSE "fallback template",
      service |-> [service EXCEPT !.chat_session = started]]

\* simple_chat_response: its first statement imports three names from
\* config.chatbot_tools.  The rule-based answer that follows is kept as one
\* opaque text.
simple_chat_response(user_message) ==
  IF ImportRaises({"execute_tool", "COMPREHENSIVE_PLANTS", "ALGERIA_ZONES"})
  THEN [raised |-> TRUE, response |-> ""]
  ELSE [raised |-> FALSE, response |-> "rule-based text"]

\* jsonify(...) of the chat handler.
ChatReply(status, service_name, response) ==
  [kind |-> "chat", status |-> status, success |-> (status = 200),
   service |-> service_name, response |-> response]

\* POST /api/chat.
ApiChat(data, outcome) ==
  /\ api_request' = [op |-> "chat", data |-> data, tool_name |-> ""]
  /\ IF data.json = "null"
     THEN \* data.get on None raises AttributeError inside the try
          /\ api_reply' = ChatReply(500, "", "")
          /\ called' = "none"
          /\ UNCHANGED <<claude_service, gemini_service>>
     ELSE LET user_message == IF "message" \in data.keys THEN data.message ELSE ""
              conversation_history == IF "conversation_history" \in data.keys
                                      THEN data.conversation_history ELSE <<>>
          IN IF user_message = ""
             THEN /\ api_reply' = ChatReply(400, "", "")
                  /\ called' = "none"
                  /\ UNCHANGED <<claude_service, gemini_service>>
             ELSE IF claude_service.up
             THEN LET r == ClaudeChat(claude_service, user_message, conversation_history, outcome)
                  IN /\ called' = "claude"
                     /\ claude_service' = r.service
                     /\ api_reply' = IF r.raised THEN ChatReply(500, "", "")
                                     ELSE ChatReply(200, "Claude AI (Sonnet 4)", r.response)
                     /\ UNCHANGED gemini_service
             ELSE IF gemini_service.up
             THEN LET r == GeminiChat(gemini_service, user_message, conversation_history, outcome)
                  IN /\ called' = "gemini"
                     /\ gemini_service' = r.service
                     /\ api_reply' = ChatReply(200, "Gemini AI", r.response)
                     /\ UNCHANGED claude_service
             ELSE LET r == simple_chat_response(user_message)
                  IN /\ called' = "fallback"
                     /\ api_reply' = IF r.raised THEN ChatReply(500, "", "")
                                     ELSE ChatReply(200, "Flexible Data-Driven Fallback", r.response)
                     /\ UNCHANGED <<claude_service, gemini_service>>
  /\ UNCHANGED <<env, kwVars, sessVars, probe>>

\* execute_tool(tool_name, **kwargs): ValueError for an unknown tool, and the
\* call of the tool function raises TypeError unless the keyword arguments
\* are the ones it takes (every tool has a required parameter).
execute_tool(tool_name, parameters) ==
  IF tool_name \notin RegisteredTools THEN [raised |-> TRUE, result |-> ""]
  ELSE IF parameters # "valid" THEN [raised |-> TRUE, result |-> ""]
  ELSE [raised |-> FALSE, result |-> tool_name]

\* jsonify(...) of the tool endpoint.
ToolReply(status, result) ==
  [kind |-> "tool", status |-> status, success |-> (status = 200), result |-> result]

\* POST /api/tool/<tool_name>.
ApiTool(tool_name, data) ==
  /\ api_request' = [op |-> "tool", data |-> data, tool_name |-> tool_name]
  /\ IF data.json = "null"
     THEN \* data.get on None raises before the registry is consulted
          api_reply' = ToolReply(500, "")
     ELSE LET parameters == IF "parameters" \in data.keys THEN data.parameters ELSE "empty"
          IN IF tool_name \notin RegisteredTools
             THEN api_reply' = ToolReply(404, "")
             ELSE LET r == execute_tool(tool_name, parameters)
                  IN api_reply' = IF r.raised THEN ToolReply(500, "") ELSE ToolReply(200, r.result)
  /\ UNCHANGED <<env, claude_service, gemini_service, called, kwVars, sessVars, probe>>

\* GET /api/health.
ApiHealth ==
  /\ api_request' = [op |-> "health", data |-> NullBody, tool_name |-> ""]
  /\ api_reply' = [kind |-> "health", status |-> 200, success |-> TRUE,
                   claude_available |-> claude_service.up,
                   gemini_available |-> gemini_service.up,
                   active_service |-> IF claude_service.up THEN "Claude AI"
                                      ELSE IF gemini_service.up THEN "Gemini AI"
                                      ELSE "Fallback"]
  /\ UNCHANGED <<env, claude_service, gemini_service, called, kwVars, sessVars, probe>>

\* The state after the module body of chatbot_api.py has run.
InitApi ==
  /\ env \in Envs
  /\ claude_service = [NoService EXCEPT !.up = ClaudeInitialises(env)]
  /\ gemini_service = [NoService EXCEPT !.up = GeminiInitialises(env, ClaudeInitialises(env))]
  /\ api_request = NoRequest
  /\ called = "none"
  /\ api_reply = NoApiReply
  /\ KwIdle /\ SessIdle /\ AliasIdle

NextApi ==
  \/ \E data \in ApiChatBodies, outcome \in {"ok", "raise"} : ApiChat(data, outcome)
  \/ \E tool_name \in ToolNames, data \in ToolBodies : ApiTool(tool_name, data)
  \/ ApiHealth

SpecApi == InitApi /\ [][NextApi]_vars

(***************************************************************************)
(* The session API (src/chatbot_v2/api.py) and the Chatbot class it keeps  *)
(* one instance of per session.  Flask serves requests on worker threads,  *)
(* so a chat request is a sequence of steps that other requests may        *)
(* interleave with.                                                        *)
(***************************************************************************)

\* The number of worker threads serving chat requests at once.
MaxThreads == 2

\* The number of chat requests admitted in one run.
MaxChats == 2

\* SETTINGS["chat_history_limit"]
chat_history_limit == 100

\* AI_SERVICE, the service every Chatbot() is built for.
AI_SERVICE ==
  "gemini"

\* ERROR_MESSAGES["api_error"]
ApiErrorMessage ==
  "I encountered an error processing your request. Please try again."

\* The histories a client of this API sends along.
SessHistories ==
  {<<>>, <<Entry("user", "old question"), Entry("assistant", "old answer")>>}

\* The chat bodies: those without message, objects with a message only, and
\* objects with message, session_id and conversation_history.
SessChatBodies ==
  BodiesWithoutMessage
  \cup {ObjectBody({"message"}, "", "default", <<>>)}
  \cup {ObjectBody({"message", "session_id", "conversation_history"}, "question", s, h) :
          s \in SessionIds, h \in SessHistories}

\* data.get("session_id", "default"), with `request.json or {}` for null.
SessionIdOf(data) ==
  IF data.json = "object" /\ "session_id" \in data.keys THEN data.session_id ELSE "default"

\* A worker thread that serves no chat request.
IdleThread ==
  [pc |-> "idle", session_id |-> "default", message |-> "", conversation_history |-> <<>>]

\* Chatbot(): a new instance has an empty conversation_history.
NewChatbot ==
  [created |-> TRUE, conversation_history |-> <<>>]

\* `if session_id not in sessions: sessions[session_id] = Chatbot()`
GetOrCreate(ss, session_id) ==
  IF ss[session_id].created THEN ss ELSE [ss EXCEPT ![session_id] = NewChatbot]

\* The keys of the sessions dictionary.
SessionKeys(ss) ==
  {s \in SessionIds : ss[s].created}

\* A faulty truncation: the oldest entries are kept.
TruncatedKeepsOldest(history) ==
  LET max_history == chat_history_limit * 2
  IN IF Len(history) > max_history THEN SubSeq(history, 1, max_history) ELSE history

\* Chatbot.chat: `self.conversation_history[-max_history:]` when the history
\* is longer than max_history = chat_history_limit * 2.
Truncated(history) ==
  LET max_history == chat_history_limit * 2
  IN IF Len(history) > max_history
     THEN SubSeq(history, Len(history) - max_history + 1, Len(history))
     ELSE history

\* A faulty reset: the history is kept.
ChatbotResetKeeps(history) ==
  history

\* Chatbot.reset: self.conversation_history = []
ChatbotReset(history) ==
  <<>>

\* A faulty reset handler: it creates the session it does not find.
ResetSessionsCreates(ss, session_id) ==
  [ss EXCEPT ![session_id] = NewChatbot]

\* reset(): `if session_id in sessions: sessions[session_id].reset()`
ResetSessions(ss, session_id) ==
  IF ss[session_id].created
  THEN [ss EXCEPT ![session_id].conversation_history = ChatbotReset(@)]
  ELSE ss

\* get_history(): the session's history, [] for an id without session.
HistoryOf(ss, session_id) ==
  IF ss[session_id].created THEN ss[session_id].conversation_history ELSE <<>>

\* POST /api/chat, first step: the guard, then get-or-create of the session.
\* The request is served by the first idle worker thread.
SChatOpen(t, data) ==
  /\ threads[t].pc = "idle"
  /\ \A u \in 1..(t - 1) : threads[u].pc # "idle"
  /\ nchats < MaxChats
  /\ IF MessageMissing(data)
     THEN /\ sess_request' = SessRequest("chat", "rejected", SessionIdOf(data))
          /\ sess_reply' = [kind |-> "chat", status |-> 400, success |-> FALSE,
                            session_id |-> "", response |-> ""]
          /\ UNCHANGED <<sessions, threads, nchats>>
     ELSE /\ sess_request' = SessRequest("chat", "open", SessionIdOf(data))
          /\ sessions' = GetOrCreate(sessions, SessionIdOf(data))
          /\ threads' = [threads EXCEPT ![t] =
                           [pc |-> "install", session_id |-> SessionIdOf(data),
                            message |-> data.message,
                            conversation_history |->
                              IF "conversation_history" \in data.keys
                              THEN data.conversation_history ELSE <<>>]]
          /\ nchats' = nchats + 1
          /\ UNCHANGED sess_reply
  /\ UNCHANGED <<kwVars, apiVars, probe>>

\* A faulty second step: a supplied history is installed only into a session
\* whose history is empty.
SChatInstallIntoEmpty(t) ==
  /\ threads[t].pc = "install"
  /\ sess_request' = SessRequest("chat", "install", threads[t].session_id)
  /\ sessions' = IF /\ threads[t].conversation_history # <<>>
                    /\ sessions[threads[t].session_id].conversation_history = <<>>
                 THEN [sessions EXCEPT ![threads[t].session_id].conversation_history =
                                          threads[t].conversation_history]
                 ELSE sessions
  /\ threads' = [threads EXCEPT ![t].pc = "user"]
  /\ UNCHANGED <<nchats, sess_reply, kwVars, apiVars, probe>>

\* POST /api/chat, second step: `if conversation_history:
\* session_bot.conversation_history = conversation_history`.
SChatInstall(t) ==
  /\ threads[t].pc = "install"
  /\ sess_request' = SessRequest("chat", "install", threads[t].session_id)
  /\ sessions' = IF threads[t].conversation_history # <<>>
                 THEN [sessions EXCEPT ![threads[t].session_id].conversation_history =
                                          threads[t].conversation_history]
                 ELSE sessions
  /\ threads' = [threads EXCEPT ![t].pc = "user"]
  /\ UNCHANGED <<nchats, sess_reply, kwVars, apiVars, probe>>

\* Chatbot.chat, first step: the user message is appended to the history.
SChatUser(t) ==
  /\ threads[t].pc = "user"
  /\ sess_request' = SessRequest("chat", "user", threads[t].session_id)
  /\ sessions' = [sessions EXCEPT ![threads[t].session_id].conversation_history =
                                    Append(@, Entry("user", threads[t].message))]
  /\ threads' = [threads EXCEPT ![t].pc = "provider"]
  /\ UNCHANGED <<nchats, sess_reply, kwVars, apiVars, probe>>

\* Chatbot.chat, second step: the provider call returns or raises.  When it
\* returns, the reply is appended and the history truncated; when it raises,
\* the except clause returns the api_error message.  The handler replies 200
\* either way.
SChatProvider(t, outcome) ==
  /\ threads[t].pc = "provider"
  /\ sess_request' = SessRequest("chat", "provider", threads[t].session_id)
  /\ sessions' = IF outcome = "ok"
                 THEN [sessions EXCEPT ![threads[t].session_id].conversation_history =
                                         Truncated(Append(@, Entry("assistant", "provider text")))]
                 ELSE sessions
  /\ sess_reply' = [kind |-> "chat", status |-> 200, success |-> TRUE,
                    session_id |-> threads[t].session_id,
                    response |-> IF outcome = "ok" THEN "provider text" ELSE ApiErrorMessage]
  /\ threads' = [threads EXCEPT ![t] = IdleThread]
  /\ UNCHANGED <<nchats, kwVars, apiVars, probe>>

\* The bodies of a reset request: null, or an object naming the session.
ResetBodies ==
  {NullBody} \cup {ObjectBody({"session_id"}, "", s, <<>>) : s \in SessionIds}

\* POST /api/reset.  A Gemini chatbot also starts a new chat session, a call
\* into the provider library that returns or raises.
SReset(data, outcome) ==
  LET session_id == SessionIdOf(data)
  IN /\ sess_request' = SessRequest("reset", "", session_id)
     /\ sessions' = ResetSessions(sessions, session_id)
     /\ sess_reply' = IF sessions[session_id].created /\ AI_SERVICE = "gemini" /\ outcome = "raise"
                      THEN [kind |-> "reset", status |-> 500, success |-> FALSE]
                      ELSE [kind |-> "reset", status |-> 200, success |-> TRUE]
     /\ UNCHANGED <<threads, nchats, kwVars, apiVars, probe>>

\* GET /api/history?session_id=...
SHistory(session_id) ==
  /\ sess_request' = SessRequest("history", "", session_id)
  /\ sess_reply' = [kind |-> "history", status |-> 200, success |-> TRUE,
                    history |-> HistoryOf(sessions, session_id)]
  /\ UNCHANGED <<sessions, threads, nchats, kwVars, apiVars, probe>>

\* The state after the module body of the session API has run.
InitSessions ==
  /\ sessions = [s \in SessionIds |-> NoSession]
  /\ threads = [t \in 1..MaxThreads |-> IdleThread]
  /\ nchats = 0
  /\ sess_request = SessRequest("none", "", "default")
  /\ sess_reply = NoApiReply
  /\ KwIdle /\ ApiIdle /\ AliasIdle

\* The routes of the session API, with the chat bodies the clients send.
SessionRoutes(bodies) ==
  \/ \E t \in 1..MaxThreads, data \in bodies : SChatOpen(t, data)
  \/ \E t \in 1..MaxThreads : SChatInstall(t)
  \/ \E t \in 1..MaxThreads : SChatUser(t)
  \/ \E t \in 1..MaxThreads, outcome \in {"ok", "raise"} : SChatProvider(t, outcome)
  \/ \E data \in ResetBodies, outcome \in {"ok", "raise"} : SReset(data, outcome)
  \/ \E session_id \in SessionIds : SHistory(session_id)

NextSessions ==
  SessionRoutes(SessChatBodies)

SpecSessions == InitSessions /\ [][NextSessions]_vars

\* The chat bodies of clients that keep the conversation themselves and send
\* it along with every message of the default session: one earlier exchange,
\* or more exchanges than Chatbot.chat keeps (the entries alternate in role
\* and repeat their texts with period three).
LongChatBodies ==
  {ObjectBody({"message", "session_id", "conversation_history"}, "question", "default", h) :
     h \in {<<Entry("user", "old question"), Entry("assistant", "old answer")>>,
            [i \in 1..(2 * chat_history_limit + 2) |->
               Entry(IF i % 2 = 1 THEN "user" ELSE "assistant",
                     <<"old question", "old answer", "old remark">>[(i % 3) + 1])]}}

NextLongHistory ==
  SessionRoutes(LongChatBodies)

SpecLongHistory == InitSessions /\ [][NextLongHistory]_vars
(***************************************************************************)
(* Alias check: extract_keywords and answer_question applied to two        *)
(* aliases of one base plant, each as configured or in capitals.           *)
(***************************************************************************)

\* The pairs of inputs: a group of PLANT_ALIASES, two of its aliases, and for
\* each whether it is typed in capitals.
AliasPairs ==
  UNION {{[group |-> g, first |-> a, second |-> b, first_up |-> u, second_up |-> v] :
            a \in 1..Len(PLANT_ALIASES[g].aliases), b \in 1..Len(PLANT_ALIASES[g].aliases),
            u \in BOOLEAN, v \in BOOLEAN} :
         g \in 1..Len(PLANT_ALIASES)}

\* The text of an input of the pair.
AliasText(group, alias, up) ==
  IF up THEN upper(PLANT_ALIASES[group].aliases[alias]) ELSE PLANT_ALIASES[group].aliases[alias]

InitAlias ==
  /\ probe \in {[stage |-> 0, pair |-> p, first |-> <<>>, first_plants |-> <<>>,
                 first_answer |-> <<>>, second |-> <<>>] : p \in AliasPairs}
  /\ KwIdle /\ ApiIdle /\ SessIdle

\* answer_question(question), its locals kept in q, intent and response.
Answer(question) ==
  /\ lowered' = Indexed(lower(question))
  /\ intent' = ExtractFrom(question, lowered')
  /\ answered' = AnswerFrom(question, lowered', intent')

\* The first input is given to extract_keywords and answer_question, and
\* what they return is noted.
ProbeFirst ==
  /\ probe.stage = 0
  /\ Answer(AliasText(probe.pair.group, probe.pair.first, probe.pair.first_up))
  /\ probe' = [probe EXCEPT !.stage = 1,
                            !.first = intent'.original,
                            !.first_plants = intent'.plants,
                            !.first_answer = answered'.text]
  /\ UNCHANGED <<message, nwords, reply, apiVars, sessVars>>

\* The second input is given to extract_keywords and answer_question.
ProbeSecond ==
  /\ probe.stage = 1
  /\ Answer(AliasText(probe.pair.group, probe.pair.second, probe.pair.second_up))
  /\ probe' = [probe EXCEPT !.stage = 2, !.second = intent'.original]
  /\ UNCHANGED <<message, nwords, reply, apiVars, sessVars>>

NextAlias ==
  \/ ProbeFirst
  \/ ProbeSecond

SpecAlias == InitAlias /\ [][NextAlias]_vars


(***************************************************************************)
(* Trait similarity: calculate_trait_similarity of config/chatbot_tools.py *)
(* applied to two plant records.  The tool registry hands the function the *)
(* records a client sends, so a record may lack the "traits" key, hold an  *)
(* empty list or name a trait twice.                                       *)
(***************************************************************************)

\* SAMPLE_PLANTS: the id, the zone and the trait list of each record.
SAMPLE_PLANTS ==
  << [id |-> 1, zone |-> "Northern", has_traits |-> TRUE,
      traits |-> <<"drought_resistance", "high_yield", "disease_resistance">>],
     [id |-> 2, zone |-> "Northern", has_traits |-> TRUE,
      traits |-> <<"cold_tolerance", "drought_resistance", "adaptability">>],
     [id |-> 3, zone |-> "High Plateau", has_traits |-> TRUE,
      traits |-> <<"high_protein", "drought_resistance", "heat_tolerance">>],
     [id |-> 4, zone |-> "Sahara", has_traits |-> TRUE,
      traits |-> <<"extreme_drought_resistance", "heat_tolerance", "low_water_needs">>] >>

\* The longest trait list of a record a client sends.
MaxTraits == 2

\* The lists over a set with at most n elements.
RECURSIVE ListsUpTo(_, _)
ListsUpTo(S, n) ==
  IF n = 0 THEN {<<>>}
  ELSE LET shorter == ListsUpTo(S, n - 1)
       IN shorter \cup {Append(l, x) : l \in shorter, x \in S}

\* The plant records the function is called with: the sample records, and
\* records of a client with a list of trait names or without the "traits" key.
PlantRecords ==
  {SAMPLE_PLANTS[i] : i \in 1..Len(SAMPLE_PLANTS)}
  \cup {[id |-> 0, zone |-> "Northern", has_traits |-> TRUE, traits |-> l] :
          l \in ListsUpTo({"drought_resistance", "heat_tolerance", "high_yield"}, MaxTraits)}
  \cup {[id |-> 0, zone |-> "Northern", has_traits |-> FALSE, traits |-> <<>>]}

\* set(plant.get("traits", []))
TraitSet(plant) ==
  IF plant.has_traits THEN {plant.traits[i] : i \in 1..Len(plant.traits)} ELSE {}

\* round(n / d * 100, 2), in hundredths (no quotient of the sizes that occur
\* lies half-way between two hundredths).
RoundedPercent(n, d) ==
  (2 * 10000 * n + d) \div (2 * d)

\* A faulty similarity: the shared traits are counted against the lengths of
\* the two trait lists instead of the size of their union.
SimilarityOverLists(plant_a, plant_b) ==
  LET traits_a == TraitSet(plant_a)
      traits_b == TraitSet(plant_b)
      total == Len(plant_a.traits) + Len(plant_b.traits)
  IN [shared_traits |-> traits_a \cap traits_b,
      similarity |-> IF total # 0
                     THEN RoundedPercent(Cardinality(traits_a \cap traits_b), total)
                     ELSE 0,
      unique_to_a |-> traits_a \ traits_b,
      unique_to_b |-> traits_b \ traits_a]

\* calculate_trait_similarity(plant_a, plant_b); the three lists are built
\* from sets and are kept as sets, similarity is in hundredths of a percent.
calculate_trait_similarity(plant_a, plant_b) ==
  LET traits_a == TraitSet(plant_a)
      traits_b == TraitSet(plant_b)
      shared_traits == traits_a \cap traits_b
      union_traits == traits_a \cup traits_b
  IN [shared_traits |-> shared_traits,
      similarity |-> IF union_traits # {}
                     THEN RoundedPercent(Cardinality(shared_traits), Cardinality(union_traits))
                     ELSE 0,
      unique_to_a |-> traits_a \ traits_b,
      unique_to_b |-> traits_b \ traits_a]

InitSimilarity ==
  /\ probe \in {[stage |-> 0, plant_a |-> a, plant_b |-> b, result |-> "None"] :
                  a \in PlantRecords, b \in PlantRecords}
  /\ KwIdle /\ ApiIdle /\ SessIdle

\* The function is called with the two records.
SimilarityCall ==
  /\ probe.stage = 0
  /\ probe' = [probe EXCEPT !.stage = 1,
                            !.result = calculate_trait_similarity(probe.plant_a, probe.plant_b)]
  /\ UNCHANGED <<kwVars, apiVars, sessVars>>

SpecSimilarity == InitSimilarity /\ [][SimilarityCall]_vars

(***************************************************************************)
(* Repeated calls: extract_keywords is called with a text, then with other *)
(* texts (directly or inside answer_question), then with the first text    *)
(* again.  The variables lowered, intent and answered hold what the last   *)
(* call left behind.                                                       *)
(***************************************************************************)

\* The most calls made between the two calls that are compared.
MaxOthers == 2

\* The texts of the two calls that are compared: each opening, each subject word, and each opening
\* followed by a plant name.
RepeatTexts ==
  {LeadIns[i] : i \in 1..Len(LeadIns)}
  \cup {Subjects[i] : i \in 1..Len(Subjects)}
  \cup {LeadIns[i] \o <<32>> \o Subjects[1] : i \in 2..Len(LeadIns)}

\* The texts of the calls made in between: two plant words ("wheat", "draa"),
\* a trait word ("drought") and a breeding question ("cross barley").
OtherTexts ==
  {Subjects[1], Subjects[5], Subjects[8], LeadIns[3] \o <<32>> \o Subjects[2]}

InitRepeat ==
  /\ probe \in {[stage |-> 0, text |-> t, others |-> 0, first |-> NoIntent, between |-> NoIntent] :
                  t \in RepeatTexts}
  /\ KwIdle /\ ApiIdle /\ SessIdle

\* A faulty call: the list of matched plants is not started empty, it goes on
\* from the list of the call before.
ExtractCallAccumulating(question) ==
  /\ lowered' = Indexed(lower(question))
  /\ intent' = [ExtractFrom(question, lowered') EXCEPT !.plants = dedupe(intent.plants \o @)]
  /\ UNCHANGED answered

\* extract_keywords(question): its locals are created by the call, and what
\* it returns is built from the question and the module's tables only.
ExtractCall(question) ==
  /\ lowered' = Indexed(lower(question))
  /\ intent' = ExtractFrom(question, lowered')
  /\ UNCHANGED answered

\* The first call with the text.
ExtractFirst ==
  /\ probe.stage = 0
  /\ ExtractCall(probe.text)
  /\ probe' = [probe EXCEPT !.stage = 1, !.first = intent']
  /\ UNCHANGED <<message, nwords, reply, apiVars, sessVars>>

\* A call of extract_keywords with another text in between.
ExtractOther(question) ==
  /\ probe.stage = 1
  /\ probe.others < MaxOthers
  /\ ExtractCall(question)
  /\ probe' = [probe EXCEPT !.others = @ + 1, !.between = intent']
  /\ UNCHANGED <<message, nwords, reply, apiVars, sessVars>>

\* A call of answer_question with another text in between.
AnswerOther(question) ==
  /\ probe.stage = 1
  /\ probe.others < MaxOthers
  /\ Answer(question)
  /\ probe' = [probe EXCEPT !.others = @ + 1, !.between = intent']
  /\ UNCHANGED <<message, nwords, reply, apiVars, sessVars>>

\* The second call with the text.
ExtractAgain ==
  /\ probe.stage = 1
  /\ ExtractCall(probe.text)
  /\ probe' = [probe EXCEPT !.stage = 2]
  /\ UNCHANGED <<message, nwords, reply, apiVars, sessVars>>

NextRepeat ==
  \/ ExtractFirst
  \/ \E question \in OtherTexts : ExtractOther(question)
  \/ \E question \in OtherTexts : AnswerOther(question)
  \/ ExtractAgain

SpecRepeat == InitRepeat /\ [][NextRepeat]_vars

(***************************************************************************)
(* Hybridization prediction: predict_hybridization of                      *)
(* config/chatbot_tools.py, called with two plant ids.                     *)
(***************************************************************************)

\* The largest plant id a caller passes; ids start at 0, the sample records
\* have the ids 1 to 4.
MaxPlantId == 7

\* get_plant_details(plant_id): the index of the first sample record with
\* that id, 0 for None.
get_plant_details(plant_id) ==
  IF \E i \in 1..Len(SAMPLE_PLANTS) : SAMPLE_PLANTS[i].id = plant_id
  THEN CHOOSE i \in 1..Len(SAMPLE_PLANTS) :
         /\ SAMPLE_PLANTS[i].id = plant_id
         /\ \A j \in 1..(i - 1) : SAMPLE_PLANTS[j].id # plant_id
  ELSE 0

\* round(x) of Python for x given in hundredths: to the nearest integer, a
\* tie to the even one.
RoundHalfEven(hundredths) ==
  LET q == hundredths \div 100
      r == hundredths % 100
  IN IF r < 50 THEN q
     ELSE IF r > 50 THEN q + 1
     ELSE IF q % 2 = 0 THEN q ELSE q + 1

\* A faulty prediction: the success rate is not clamped to 20..95.
PredictUnclamped(plant_a_id, plant_b_id) ==
  LET plant_a == get_plant_details(plant_a_id)
      plant_b == get_plant_details(plant_b_id)
  IN IF plant_a = 0 \/ plant_b = 0 THEN [is_none |-> TRUE]
     ELSE LET similarity == calculate_trait_similarity(SAMPLE_PLANTS[plant_a], SAMPLE_PLANTS[plant_b])
              zone_bonus == IF SAMPLE_PLANTS[plant_a].zone = SAMPLE_PLANTS[plant_b].zone THEN 1500 ELSE 0
              success_rate == similarity.similarity + zone_bonus
          IN [is_none |-> FALSE,
              plant_a |-> plant_a,
              plant_b |-> plant_b,
              success_rate |-> RoundHalfEven(success_rate),
              shared_traits |-> similarity.shared_traits,
              compatibility |-> IF success_rate >= 7000 THEN "High"
                                ELSE IF success_rate >= 5000 THEN "Moderate"
                                ELSE "Low"]

\* predict_hybridization(plant_a_id, plant_b_id).  Percentages are in
\* hundredths up to the rounding of the reported rate; the label is chosen
\* from the rate before it is rounded.  The records are given by their index
\* in SAMPLE_PLANTS; confidence and recommendation are left out.
predict_hybridization(plant_a_id, plant_b_id) ==
  LET plant_a == get_plant_details(plant_a_id)
      plant_b == get_plant_details(plant_b_id)
  IN IF plant_a = 0 \/ plant_b = 0 THEN [is_none |-> TRUE]
     ELSE LET similarity == calculate_trait_similarity(SAMPLE_PLANTS[plant_a], SAMPLE_PLANTS[plant_b])
              zone_bonus == IF SAMPLE_PLANTS[plant_a].zone = SAMPLE_PLANTS[plant_b].zone THEN 1500 ELSE 0
              base_success == similarity.similarity
              raised == IF base_success + zone_bonus > 2000 THEN base_success + zone_bonus ELSE 2000
              success_rate == IF raised < 9500 THEN raised ELSE 9500
          IN [is_none |-> FALSE,
              plant_a |-> plant_a,
              plant_b |-> plant_b,
              success_rate |-> RoundHalfEven(success_rate),
              shared_traits |-> similarity.shared_traits,
              compatibility |-> IF success_rate >= 7000 THEN "High"
                                ELSE IF success_rate >= 5000 THEN "Moderate"
                                ELSE "Low"]

InitHybridization ==
  /\ probe \in {[stage |-> 0, plant_a_id |-> a, plant_b_id |-> b, result |-> [is_none |-> TRUE]] :
                  a \in 0..MaxPlantId, b \in 0..MaxPlantId}
  /\ KwIdle /\ ApiIdle /\ SessIdle

\* execute_tool("predict_hybridization", plant_a_id=..., plant_b_id=...)
HybridizationCall ==
  /\ probe.stage = 0
  /\ probe' = [probe EXCEPT !.stage = 1,
                            !.result = predict_hybridization(probe.plant_a_id, probe.plant_b_id)]
  /\ UNCHANGED <<kwVars, apiVars, sessVars>>

SpecHybridization == InitHybridization /\ [][HybridizationCall]_vars

(***************************************************************************)
(* The tool registry: class ToolRegistry of chatbot_v2/tools.py, driven by *)
(* register and execute calls.  The registry is kept in probe: tools maps  *)
(* a name to the function registered under it ("none" for a name that is   *)
(* not a key), tool_definitions is the list of definitions by their name.  *)
(***************************************************************************)

\* The number of register calls in one run.
MaxRegistrations == 3

\* ToolRegistry(): no tools, no definitions.
InitRegistry ==
  /\ probe = [stage |-> 0,
              tools |-> [name \in {"get_current_time", "calculate"} |-> "none"],
              tool_definitions |-> <<>>,
              call |-> "none", name |-> "", outcome |-> ""]
  /\ KwIdle /\ ApiIdle /\ SessIdle

\* @registry.register(name, description, parameters) applied to func.
Register(name, func) ==
  /\ probe.stage < MaxRegistrations
  /\ probe' = [probe EXCEPT !.stage = @ + 1,
                            !.tools[name] = func,
                            !.tool_definitions = Append(@, name),
                            !.call = "register", !.name = name, !.outcome = "returned"]
  /\ UNCHANGED <<kwVars, apiVars, sessVars>>

\* registry.execute(name): ValueError for a name that is not a key of tools,
\* else the call of the function registered under it.
Execute(name) ==
  /\ probe' = [probe EXCEPT !.call = "execute", !.name = name,
                            !.outcome = IF name \notin DOMAIN probe.tools \/ probe.tools[name] = "none"
                                        THEN "ValueError" ELSE probe.tools[name]]
  /\ UNCHANGED <<kwVars, apiVars, sessVars>>

NextRegistry ==
  \/ \E name \in {"get_current_time", "calculate"}, func \in {"first function", "second function"} :
       Register(name, func)
  \/ \E name \in {"get_current_time", "calculate", "no_such_tool"} : Execute(name)

SpecRegistry == InitRegistry /\ [][NextRegistry]_vars

(***************************************************************************)
(* Properties.                                                             *)
(***************************************************************************)

\* C1: answer_question returns a non-empty string for every input string and
\* never raises: whichever branch returns, a chat that passed the message
\* guard is answered 200 with a text that has at least one part, and the text
\* of the final branch is the static help exactly when the cascade above it
\* produced nothing.
C1_AnswerNonEmpty ==
  (reply.kind = "chat" /\ reply.status # 400) =>
    /\ reply.status = 200
    /\ reply.success
    /\ reply.text # <<>>
    /\ reply.branch # ""
    /\ (reply.branch = "fallback") =
         (reply.text = FallbackHelp /\ CascadeResp(lowered, intent) = <<>>)

\* C1 witness: a question none of the blocks answers is given the help text.
C1_FallbackReached ==
  /\ reply.kind = "chat"
  /\ reply.status = 200
  /\ reply.branch = "fallback"
  /\ reply.text = FallbackHelp
  /\ intent.original # <<>>

\* The request served last is a chat request with a non-empty message.
ApiChatWithMessage ==
  /\ api_request.op = "chat"
  /\ api_request.data.json = "object"
  /\ "message" \in api_request.data.keys
  /\ api_request.data.message # ""

\* C2: when neither the Claude nor the Gemini service was initialised, every
\* POST /api/chat with a non-empty message is answered by
\* simple_chat_response with HTTP 200, success=true and a non-empty response;
\* it never ends in a 500 error.
C2_FallbackAnswers ==
  (ApiChatWithMessage /\ ~claude_service.up /\ ~gemini_service.up) =>
    /\ called = "fallback"
    /\ api_reply.kind = "chat"
    /\ api_reply.status = 200
    /\ api_reply.success
    /\ api_reply.response # ""

\* The chat function the priority of chatbot_api selects.
PreferredService ==
  IF claude_service.up THEN "claude"
  ELSE IF gemini_service.up THEN "gemini"
  ELSE "fallback"

\* The name /api/health gives to a chat function.
HealthName(service) ==
  IF service = "claude" THEN "Claude AI"
  ELSE IF service = "gemini" THEN "Gemini AI"
  ELSE "Fallback"

\* C3: the provider choice is a fixed priority and exclusive.  The Claude and
\* Gemini services are never both active, and Gemini is active only if Claude
\* did not initialise; every chat request with a message is handed to Claude
\* if it initialised, else to Gemini if it did, else to the local dispatcher;
\* a 200 chat reply names that service; and the active_service of
\* /api/health names the function the chat requests were handed to.
C3_ProviderPriority ==
  /\ ~(claude_service.up /\ gemini_service.up)
  /\ gemini_service.up => ~ClaudeInitialises(env)
  /\ ApiChatWithMessage => called = PreferredService
  /\ called # "none" => called = PreferredService
  /\ (ApiChatWithMessage /\ api_reply.status = 200) =>
       api_reply.service = (IF called = "claude" THEN "Claude AI (Sonnet 4)"
                            ELSE IF called = "gemini" THEN "Gemini AI"
                            ELSE "Flexible Data-Driven Fallback")
  /\ (api_reply.kind = "health" /\ called # "none") =>
       api_reply.active_service = HealthName(called)

\* C3 witness: on a host with both provider packages but no Claude key, a
\* chat was handed to Gemini and /api/health then reports Gemini.
C3_GeminiServed ==
  /\ env.anthropic_installed /\ env.genai_installed /\ ~env.anthropic_key
  /\ called = "gemini"
  /\ api_reply.kind = "health"
  /\ api_reply.active_service = "Gemini AI"

\* C4: a failure of the remote provider call during a chat request is caught
\* and mapped to a fallback text, so the reply carries response text and
\* success=true, on every provider path: a chat request with a message that
\* is handed to the Claude or the Gemini service is answered 200 with
\* success=true and a non-empty response.
C4_ProviderFailureCaught ==
  (ApiChatWithMessage /\ called \in {"claude", "gemini"}) =>
    /\ api_reply.status = 200
    /\ api_reply.success
    /\ api_reply.response # ""

\* C5: a POST /api/chat whose JSON body lacks the message field (an empty
\* object, null, or an object with other keys only) is answered 400 with
\* success=false and no chat function is called; stated here for the
\* provider API.
C5_MissingMessageRejected ==
  (/\ api_request.op = "chat"
   /\ (api_request.data.json = "null" \/ "message" \notin api_request.data.keys)) =>
    /\ api_reply.status = 400
    /\ ~api_reply.success

\* C6: POST /api/tool/<name> answers 404 with success=false for every name
\* that is not in the registry, whatever the body is, and answers with the
\* tool's result and success=true for a registered name.
C6_ToolEndpoint ==
  api_request.op = "tool" =>
    IF api_request.tool_name \in RegisteredTools
    THEN api_reply.status = 200 /\ api_reply.success /\ api_reply.result = api_request.tool_name
    ELSE api_reply.status = 404 /\ ~api_reply.success

\* What one step of the session API must satisfy for C7.
ResetStepClears ==
  /\ sess_request'.op = "reset" =>
       /\ HistoryOf(sessions', sess_request'.session_id) = <<>>
       /\ \A other \in SessionIds \ {sess_request'.session_id} : sessions'[other] = sessions[other]
       /\ SessionKeys(sessions') = SessionKeys(sessions)
  /\ sess_request'.op = "history" =>
       /\ sess_reply'.kind = "history"
       /\ sess_reply'.history = HistoryOf(sessions, sess_request'.session_id)
       /\ sessions' = sessions
  /\ \A s \in SessionIds :
       (HistoryOf(sessions, s) = <<>> /\ HistoryOf(sessions', s) # <<>>) =>
         (sess_request'.op = "chat" /\ sess_request'.session_id = s)

\* C7: after POST /api/reset for session s, GET /api/history for s returns an
\* empty list until the next chat in s: a reset step leaves the history of s
\* empty, a history step returns the stored history and changes nothing, and
\* an empty history becomes non-empty only by a step of a chat request in
\* that session.  The reset leaves every other session as it was and neither
\* creates nor removes a session.
C7_ResetClearsHistory ==
  [][ResetStepClears]_vars

\* C7 witness: the request served last is a reset of a session that exists,
\* every admitted chat has run to its end (so the session had entries), its
\* history is empty and the other session still holds entries.
C7_ResetOfUsedSession ==
  /\ sess_request.op = "reset"
  /\ sess_reply.kind = "reset"
  /\ sessions[sess_request.session_id].created
  /\ sessions[sess_request.session_id].conversation_history = <<>>
  /\ nchats = MaxChats
  /\ \A t \in DOMAIN threads : threads[t].pc = "idle"
  /\ \E other \in SessionIds \ {sess_request.session_id} :
       sessions[other].created /\ sessions[other].conversation_history # <<>>

\* What one step of the session API must satisfy for C8.
SessionMapStep ==
  /\ SessionKeys(sessions) \subseteq SessionKeys(sessions')
  /\ SessionKeys(sessions') # SessionKeys(sessions) =>
       /\ sess_request'.op = "chat"
       /\ sess_request'.step = "open"
       /\ SessionKeys(sessions') = SessionKeys(sessions) \cup {sess_request'.session_id}
  /\ sess_request'.step = "rejected" => sessions' = sessions
  /\ (sess_request'.op \in {"history", "reset"} /\ ~sessions[sess_request'.session_id].created) =>
       /\ sessions' = sessions
       /\ sess_reply'.status = 200
       /\ sess_reply'.success
       /\ sess_request'.op = "history" => sess_reply'.history = <<>>

\* C8: GET /api/history and POST /api/reset for a session id that has never
\* chatted succeed (history is the empty list) and leave the session map
\* unchanged; only a POST /api/chat carrying a message adds a session, and a
\* session once created is never removed by any operation.
C8_SessionMapFrame ==
  [][SessionMapStep]_vars

\* C8 witness: the history of an id without session was asked for and given
\* as the empty list while another session exists.
C8_HistoryOfUnknownSession ==
  /\ sess_request.op = "history"
  /\ ~sessions[sess_request.session_id].created
  /\ sess_reply.kind = "history"
  /\ sess_reply.status = 200
  /\ sess_reply.history = <<>>
  /\ \E other \in SessionIds : sessions[other].created

\* The catalog indexes of the plants whose canonical (common) name is one token.
SingleTokenPlants ==
  {n \in 1..NumPlants : WordCount(PLANTS_DATA[n].commonName) = 1}

\* The text has a part with template t that formats number n and label z.
HasPart(text, t, n, z) ==
  \E i \in 1..Len(text) : text[i].t = t /\ text[i].n = n /\ text[i].z = z

\* C9: for a single-token input equal in any letter case to a canonical plant
\* name and with no trait keyword, answer_question returns from the
\* short-input branch a non-empty summary of that plant with its drought
\* score and its zone; and 'wheat' gives 'Drought: 6/10' and 'Zone: Northern'.
C9_ShortPlantSummary ==
  (reply.kind = "chat" /\ reply.status = 200) =>
    /\ \A n \in SingleTokenPlants :
         (lower(intent.original) = lower(PLANTS_DATA[n].commonName) /\ intent.traits = <<>>) =>
           /\ reply.branch = "short_plant"
           /\ reply.text # <<>>
           /\ reply.text[1].t = "short_header"
           /\ reply.text[1].p = PLANTS_DATA[n].commonName
           /\ HasPart(reply.text, "short_drought", PLANTS_DATA[n].resistance.drought, "")
           /\ HasPart(reply.text, "short_zone", 0, PLANTS_DATA[n].optimalZone)
    /\ lower(intent.original) = <<119, 104, 101, 97, 116>> =>
         /\ reply.branch = "short_plant"
         /\ HasPart(reply.text, "short_drought", 6, "")
         /\ HasPart(reply.text, "short_zone", 0, "Northern")

\* C9 witness: a single-token canonical name typed in capitals was answered
\* from the short-input branch with that plant's drought score.
C9_CapitalsAnswered ==
  /\ reply.kind = "chat"
  /\ reply.branch = "short_plant"
  /\ intent.traits = <<>>
  /\ \E n \in SingleTokenPlants :
       /\ intent.original = upper(PLANTS_DATA[n].commonName)
       /\ intent.original # lower(PLANTS_DATA[n].commonName)
       /\ reply.text[1].p = PLANTS_DATA[n].commonName
       /\ HasPart(reply.text, "short_drought", PLANTS_DATA[n].resistance.drought, "")

\* C10: plant matching is case-insensitive and alias-insensitive: any two
\* configured aliases of the same base plant, in any letter case ('WHEAT',
\* 'ble' with its accent and the Arabic word among them), yield the same
\* matched plant list; and the three wheat inputs yield the same answer.
C10_AliasesAgree ==
  probe.stage = 2 =>
    /\ intent.plants = probe.first_plants
    /\ PLANT_ALIASES[probe.pair.group].base = <<119, 104, 101, 97, 116>> =>
         answered.text = probe.first_answer

\* The numbered or dashed rows of a ranking table in an answer.
RankingRows(text) ==
  SelectSeq(text, LAMBDA part : part.t \in {"rank_line", "dash_line"})

\* The titles that head a drought ranking table.
DroughtTitles ==
  {"short_drought_title", "drought_rankings_title"}

\* The titles that head a yield ranking table.
YieldTitles ==
  {"short_yield_title", "yield_rankings_title"}

\* The return paths of answer_question that render a ranking table.
RankingBranches ==
  {"short_drought_ranking", "short_yield_ranking", "trait_ranking", "trait"}

\* The score a ranking table headed by that title sorts by.
TableKey(title) ==
  IF title \in DroughtTitles THEN DroughtKey ELSE YieldKey

\* C11: every drought ranking and every yield ranking rendered by
\* answer_question lists each catalog plant exactly once with its own score,
\* in non-increasing order of the score, plants of equal score in catalog
\* order; and the answers that hold ranking rows are exactly those of the
\* four ranking return paths.
C11_RankingsSortedStable ==
  (reply.kind = "chat" /\ reply.status = 200) =>
    LET rows == RankingRows(reply.text)
    IN /\ (rows # <<>>) = (reply.branch \in RankingBranches)
       /\ rows # <<>> =>
            /\ reply.text[1].t \in DroughtTitles \cup YieldTitles
            /\ Len(rows) = NumPlants
            /\ \A n \in 1..NumPlants :
                 Cardinality({i \in 1..Len(rows) : rows[i].p = PLANTS_DATA[n].commonName}) = 1
            /\ \A i \in 1..Len(rows) :
                 rows[i].n = TableKey(reply.text[1].t)[FindPlant(rows[i].p)]
            /\ \A i, j \in 1..Len(rows) :
                 i < j => \/ rows[i].n > rows[j].n
                          \/ /\ rows[i].n = rows[j].n
                             /\ FindPlant(rows[i].p) < FindPlant(rows[j].p)

\* C11 witness: a drought ranking of a three-word question was rendered by
\* the cascade, and two plants of equal score stand next to each other in it.
C11_TiedPlantsRanked ==
  /\ reply.kind = "chat"
  /\ reply.branch = "trait_ranking"
  /\ reply.text[1].t = "drought_rankings_title"
  /\ \E i \in 1..(Len(RankingRows(reply.text)) - 1) :
       RankingRows(reply.text)[i].n = RankingRows(reply.text)[i + 1].n

\* C12 as stated: for every plant record A, calculate_trait_similarity(A, A)
\* reports similarity 100.0 with empty unique_to_a and empty unique_to_b.
C12_SelfSimilarityAlways100 ==
  (probe.stage = 1 /\ probe.plant_a = probe.plant_b) =>
    /\ probe.result.similarity = 10000
    /\ probe.result.unique_to_a = {}
    /\ probe.result.unique_to_b = {}

\* C12, amended: calculate_trait_similarity(A, A) reports empty unique_to_a
\* and empty unique_to_b and shares every trait of A; its similarity is 100.0
\* when A has at least one trait, and 0 when A has no trait (an empty list or
\* no "traits" key), the union then being empty.
C12_SelfSimilarity ==
  (probe.stage = 1 /\ probe.plant_a = probe.plant_b) =>
    /\ probe.result.unique_to_a = {}
    /\ probe.result.unique_to_b = {}
    /\ probe.result.shared_traits = TraitSet(probe.plant_a)
    /\ probe.result.similarity = (IF TraitSet(probe.plant_a) = {} THEN 0 ELSE 10000)

\* C12 witness: a record that names one trait twice was compared with itself
\* and found 100.0 similar.
C12_SelfComparedWithTraits ==
  /\ probe.stage = 1
  /\ probe.plant_a = probe.plant_b
  /\ Len(probe.plant_a.traits) > Cardinality(TraitSet(probe.plant_a))
  /\ probe.result.similarity = 10000
  /\ probe.result.unique_to_a = {}

LongQuestion ==
  WordCount(intent.original) > 2

\* Some part of the text names plant n with the number score.
NamesPlant(text, n, score) ==
  \E i \in 1..Len(text) : text[i].p = PLANTS_DATA[n].commonName /\ text[i].n = score

\* C14: for any question of more than two tokens that is classified as a
\* recommendation, matches the drought trait and matches no plant, no zone
\* and no breeding keyword, the answer names the single plant with the
\* highest drought score (Sorghum, 9/10) and no other plant, whatever the
\* language of the drought keyword.
C14_BestForDrought ==
  (/\ reply.kind = "chat" /\ reply.status = 200
   /\ LongQuestion
   /\ intent.type = "recommendation"
   /\ \E i \in 1..Len(intent.traits) : intent.traits[i] = "drought"
   /\ intent.plants = <<>> /\ intent.zones = <<>> /\ ~intent.is_breeding) =>
    /\ NamesPlant(reply.text, MaxPlant(DroughtKey), 9)
    /\ \A i \in 1..Len(reply.text) :
         reply.text[i].p \in {<<>>, PLANTS_DATA[MaxPlant(DroughtKey)].commonName}

\* C15: any input of at most two tokens that matches no plant, no trait and
\* no zone keyword gets the static usage help of the short-input block, which
\* lists the accepted plant names, and is answered by no other branch.
C15_ShortHelp ==
  (/\ reply.kind = "chat" /\ reply.status = 200
   /\ ~LongQuestion
   /\ intent.plants = <<>> /\ intent.traits = <<>> /\ intent.zones = <<>>) =>
    /\ reply.branch = "short_help"
    /\ Len(reply.text) = 5
    /\ reply.text[1].t = "short_help_1"
    /\ reply.text[Len(reply.text)].t = "short_help_plants"
    /\ \A i \in 1..Len(reply.text) : reply.text[i].p = <<>>

\* C15 witness: the single letter 'g' was answered with the usage help.
C15_LetterGetsHelp ==
  /\ reply.kind = "chat"
  /\ intent.original = <<103>>
  /\ reply.branch = "short_help"
  /\ reply.text[5].t = "short_help_plants"

\* How many parts of the text are rendered from template t.
CountParts(text, t) ==
  Cardinality({i \in 1..Len(text) : text[i].t = t})

\* The name on the winner line of a comparison of plants a and b by key.
Winner(a, b, key) ==
  IF key[a] > key[b] THEN PLANTS_DATA[a].commonName ELSE PLANTS_DATA[b].commonName

\* The answer compares the first two matched plants: it holds both names, one
\* drought winner line and one yield winner line, and each winner line names
\* the first plant if and only if its score is strictly greater.
ComparesFirstTwo ==
  LET a == FindPlant(intent.plants[1])
      b == FindPlant(intent.plants[2])
  IN /\ reply.branch = "comparison"
     /\ \E i \in 1..Len(reply.text) :
          reply.text[i].t = "cmp_name" /\ reply.text[i].p = intent.plants[1]
     /\ \E i \in 1..Len(reply.text) :
          reply.text[i].t = "cmp_name" /\ reply.text[i].p = intent.plants[2]
     /\ CountParts(reply.text, "cmp_drought_winner") = 1
     /\ CountParts(reply.text, "cmp_yield_winner") = 1
     /\ \A i \in 1..Len(reply.text) :
          /\ reply.text[i].t = "cmp_drought_winner" => reply.text[i].p = Winner(a, b, DroughtKey)
          /\ reply.text[i].t = "cmp_yield_winner" => reply.text[i].p = Winner(a, b, YieldKey)

\* C16: for a non-breeding question of more than two tokens with a comparison
\* keyword and at least two matched plants, the answer compares the first two
\* matched plants, contains both plant names and exactly one drought winner
\* line and one yield winner line; a winner line names the first plant if and
\* only if its score is strictly greater, so equal scores name the second.
C16_ComparisonWinners ==
  (/\ reply.kind = "chat" /\ reply.status = 200
   /\ LongQuestion
   /\ ~intent.is_breeding
   /\ AnyIn(ComparisonWords, lowered)
   /\ Len(intent.plants) >= 2) =>
    ComparesFirstTwo

\* The score each ranking metric of the claim sorts by.
MetricKey(trait) ==
  IF trait = "drought" THEN DroughtKey
  ELSE IF trait = "yield" THEN YieldKey
  ELSE IF trait = "salinity" THEN [i \in 1..NumPlants |-> PLANTS_DATA[i].resistance.salinity]
  ELSE IF trait = "disease" THEN [i \in 1..NumPlants |-> PLANTS_DATA[i].resistance.disease]
  ELSE [i \in 1..NumPlants |-> PLANTS_DATA[i].genomeSize]

\* C17: for any input of at most two tokens that matches exactly one trait
\* category and no plant, the answer is the full ranking table of all catalog
\* plants for that trait, for each of the ranking metrics drought, salinity,
\* disease, yield and genome size: one row per plant with its score for the
\* matched trait.
C17_ShortTraitRanking ==
  (/\ reply.kind = "chat" /\ reply.status = 200
   /\ ~LongQuestion
   /\ intent.plants = <<>>
   /\ Len(intent.traits) = 1
   /\ intent.traits[1] \in {"drought", "salinity", "disease", "yield", "genome"}) =>
    LET rows == RankingRows(reply.text)
    IN /\ Len(rows) = NumPlants
       /\ \A n \in 1..NumPlants :
            \E i \in 1..Len(rows) :
              /\ rows[i].p = PLANTS_DATA[n].commonName
              /\ rows[i].n = MetricKey(intent.traits[1])[n]

\* The return paths of the breeding block.
BreedingBranches ==
  {"breeding_hybrid", "breeding_cross", "breeding_genetics", "breeding_methods",
   "breeding_zone", "breeding_tips"}

\* The templates that open the answers of the breeding block.
BreedingOpenings ==
  {"hybrid_title", "cross_table_header", "cross_header", "genetics_title",
   "methods_title", "zone_breeding_title", "tips_title"}

\* C18: for any input of more than two tokens that contains a breeding or
\* genetics keyword, extract_keywords returns type 'breeding' whatever other
\* keywords are present, and answer_question returns exactly one of the
\* breeding templates; the comparison, better/which, characteristics,
\* ranking, plant, zone and help branches are never reached for it.
C18_BreedingOverride ==
  (/\ reply.kind = "chat" /\ reply.status = 200
   /\ LongQuestion
   /\ AnyIn(breeding_keywords, lowered)) =>
    /\ intent.is_breeding
    /\ intent.type = "breeding"
    /\ reply.branch \in BreedingBranches
    /\ reply.text # <<>>
    /\ reply.text[1].t \in BreedingOpenings
    /\ CountParts(reply.text, reply.text[1].t) = 1
    /\ \A i \in 2..Len(reply.text) : reply.text[i].t \notin BreedingOpenings

\* C18 witness: a question that holds a breeding keyword, a type keyword of
\* another set and two matched plants was answered from the breeding block.
C18_BreedingBeatsOtherKeywords ==
  /\ reply.kind = "chat"
  /\ LongQuestion
  /\ BaseType(lowered) # "general"
  /\ Len(intent.plants) >= 2
  /\ intent.type = "breeding"
  /\ reply.branch \in BreedingBranches

\* The keyword sets that decide the question type, in their priority order.
TypeOrder ==
  << [type |-> "recommendation", words |-> RecommendationWords],
     [type |-> "ranking", words |-> RankingWords],
     [type |-> "comparison", words |-> ComparisonWords],
     [type |-> "what", words |-> WhatWords],
     [type |-> "characteristics", words |-> CharacteristicsWords] >>

\* The type of the first set of TypeOrder with a keyword in q, 'general' when
\* no set has one.
FirstMatchingType(q) ==
  IF AnyIn(TypeOrder[1].words, q) THEN TypeOrder[1].type
  ELSE IF AnyIn(TypeOrder[2].words, q) THEN TypeOrder[2].type
  ELSE IF AnyIn(TypeOrder[3].words, q) THEN TypeOrder[3].type
  ELSE IF AnyIn(TypeOrder[4].words, q) THEN TypeOrder[4].type
  ELSE IF AnyIn(TypeOrder[5].words, q) THEN TypeOrder[5].type
  ELSE "general"

\* C19: when no breeding keyword is present, the question type is decided by
\* the first matching keyword set in the order recommendation, ranking,
\* comparison, what, characteristics, and is 'general' when none matches; for
\* an input of at most two tokens with a plant, trait or zone matched this is
\* overridden to 'what' if a plant matched, else to 'ranking' if a trait
\* matched, and is left as computed if only a zone matched.
C19_TypePriority ==
  (/\ reply.kind = "chat" /\ reply.status = 200
   /\ ~AnyIn(breeding_keywords, lowered)) =>
    /\ ~intent.is_breeding
    /\ intent.type =
         (IF ~LongQuestion /\ intent.plants # <<>> THEN "what"
          ELSE IF ~LongQuestion /\ intent.traits # <<>> THEN "ranking"
          ELSE FirstMatchingType(lowered))

\* C19 witness: a two-token input that matched a zone only kept the type of
\* its comparison keyword.
C19_ZoneOnlyKeepsType ==
  /\ reply.kind = "chat"
  /\ reply.status = 200
  /\ ~LongQuestion
  /\ intent.plants = <<>> /\ intent.traits = <<>> /\ intent.zones # <<>>
  /\ intent.type = "comparison"

\* The 1-indexed position of plant i in the stable descending order by key:
\* one more than the plants with a greater key or with an equal key and an
\* earlier place in the catalog.
Position(i, key) ==
  1 + Cardinality({j \in 1..NumPlants : key[j] > key[i] \/ (key[j] = key[i] /\ j < i)})

\* The number the answer reports in its part of template t.
Reported(text, t) ==
  text[CHOOSE i \in 1..Len(text) : text[i].t = t].n

\* C20: for a question of more than two tokens that contains 'ranking',
\* matches a plant and reaches the ranking branch, the reported drought and
\* yield ranks of the first matched plant are its 1-indexed positions in the
\* stable descending sort of the catalog; each rank lies in 1..N, and over
\* all catalog plants the ranks for one metric form a permutation of 1..N,
\* tied plants getting distinct ranks in catalog order.
C20_RanksArePositions ==
  (/\ reply.kind = "chat" /\ reply.status = 200
   /\ LongQuestion
   /\ reply.branch = "ranking_plant") =>
    /\ Contains(Lit.ranking, lowered)
    /\ intent.plants # <<>>
    /\ reply.text[1].p = intent.plants[1]
    /\ CountParts(reply.text, "rank_drought") = 1
    /\ CountParts(reply.text, "rank_yield") = 1
    /\ Reported(reply.text, "rank_drought") = Position(FindPlant(intent.plants[1]), DroughtKey)
    /\ Reported(reply.text, "rank_yield") = Position(FindPlant(intent.plants[1]), YieldKey)
    /\ Reported(reply.text, "rank_drought") \in 1..NumPlants
    /\ Reported(reply.text, "rank_yield") \in 1..NumPlants
    /\ \A key \in {DroughtKey, YieldKey} :
         LET sorted_p == SortedDesc(NumPlants, key)
         IN /\ {RankOf(sorted_p, i) : i \in 1..NumPlants} = 1..NumPlants
            /\ \A i, j \in 1..NumPlants :
                 (i < j /\ key[i] = key[j]) => RankOf(sorted_p, i) < RankOf(sorted_p, j)

\* C20 witness: the ranks of a plant were reported that shares its drought
\* score with a plant earlier in the catalog, and its drought rank is behind
\* the rank that score starts at.
C20_TiedPlantRanked ==
  /\ reply.kind = "chat"
  /\ LongQuestion
  /\ reply.branch = "ranking_plant"
  /\ \E j \in 1..(FindPlant(intent.plants[1]) - 1) :
       DroughtKey[j] = DroughtKey[FindPlant(intent.plants[1])]
  /\ Reported(reply.text, "rank_drought") >
       1 + Cardinality({j \in 1..NumPlants : DroughtKey[j] > DroughtKey[FindPlant(intent.plants[1])]})

\* The parts of the text rendered from template t, in their order.
PartsOf(text, t) ==
  SelectSeq(text, LAMBDA part : part.t = t)

\* C21: in the better/which branch with a matched plant, every alternative
\* listed has the optimal zone of the first matched plant and is never that
\* plant itself, at most three alternatives are listed, in catalog order, and
\* the text is non-empty (it opens with the line that names the plant) also
\* when the plant has no same-zone alternative.
C21_BetterAlternatives ==
  (reply.kind = "chat" /\ reply.status = 200 /\ reply.branch = "better_plant") =>
    LET first == FindPlant(intent.plants[1])
        listed == PartsOf(reply.text, "better_alternative")
    IN /\ first # 0
       /\ reply.text # <<>>
       /\ reply.text[1].t = "better_for"
       /\ reply.text[1].p = PLANTS_DATA[first].commonName
       /\ Len(reply.text) = 2 + Len(listed)
       /\ Len(listed) <= 3
       /\ \A i \in 1..Len(listed) :
            /\ listed[i].z = PLANTS_DATA[first].optimalZone
            /\ listed[i].p # PLANTS_DATA[first].commonName
            /\ FindPlant(listed[i].p) # 0
            /\ PLANTS_DATA[FindPlant(listed[i].p)].optimalZone = PLANTS_DATA[first].optimalZone
       /\ \A i, j \in 1..Len(listed) :
            i < j => FindPlant(listed[i].p) < FindPlant(listed[j].p)

\* C21 witness: alternatives were listed for a plant that stands between them
\* in the catalog.
C21_AlternativesListed ==
  /\ reply.kind = "chat"
  /\ reply.branch = "better_plant"
  /\ Len(PartsOf(reply.text, "better_alternative")) = 2
  /\ FindPlant(PartsOf(reply.text, "better_alternative")[1].p) < FindPlant(intent.plants[1])
  /\ FindPlant(intent.plants[1]) < FindPlant(PartsOf(reply.text, "better_alternative")[2].p)

\* The names of catalog plant n, lower-cased: its common name, its scientific
\* name and the aliases configured for a base name that occurs in its common
\* name.
NamesOfPlant(n) ==
  {PlantNames[n].common_lower, PlantNames[n].name_lower}
    \cup UNION {{PLANT_ALIASES[g].aliases[a] : a \in 1..Len(PLANT_ALIASES[g].aliases)} :
                  g \in {h \in 1..Len(PLANT_ALIASES) :
                           ContainsSeq(PLANT_ALIASES[h].base, PlantNames[n].common_lower)}}

\* C22: for every catalog plant and each of its names (common name,
\* scientific name, or an alias configured for its base name), a question
\* consisting of just that name has that plant as the first matched plant, and
\* the compact summary of the short-input branch is the summary of that plant.
C22_NameFindsPlant ==
  (reply.kind = "chat" /\ reply.status = 200) =>
    \A n \in 1..NumPlants :
      lower(intent.original) \in NamesOfPlant(n) =>
        /\ intent.plants # <<>>
        /\ intent.plants[1] = PLANTS_DATA[n].commonName
        /\ reply.branch = "short_plant" => reply.text[1].p = PLANTS_DATA[n].commonName

\* The English name of each zone as it is written in a question.
ZoneNameWord ==
  [Northern |-> NorthernWords[1], Plateau |-> HighPlateauWords[1], Sahara |-> SaharaWords[1]]

\* The zone record each name stands for.
ZoneOfWord ==
  [Northern |-> "Northern", Plateau |-> "High Plateau", Sahara |-> "Sahara"]

\* C23: for a non-breeding question that matches no plant and contains the
\* name of exactly one of the three zones (northern, plateau or sahara), the
\* zone answer rendered by answer_question describes that zone, whatever the
\* other words of the question are.
C23_ZoneAnswerNamesZone ==
  (/\ reply.kind = "chat" /\ reply.status = 200
   /\ ~intent.is_breeding
   /\ intent.plants = <<>>
   /\ reply.text # <<>>
   /\ reply.text[1].t = "zone_title") =>
    \A w \in DOMAIN ZoneNameWord :
      (/\ Contains(ZoneNameWord[w], lowered)
       /\ \A v \in DOMAIN ZoneNameWord \ {w} : ~Contains(ZoneNameWord[v], lowered)) =>
        reply.text[1].z = ZoneOfWord[w]

\* The entries of the compatibility table for the pair (a, b) of matched
\* plants: the key joins a base name that occurs in the lower-cased common
\* name of a with one that occurs in that of b ('wheat_barley' for Bread Wheat
\* and Barley).
PairEntries(a, b) ==
  {i \in 1..Len(COMPATIBILITY) :
     \E g, h \in 1..Len(PLANT_ALIASES) :
       /\ ContainsSeq(PLANT_ALIASES[g].base, lower(a))
       /\ ContainsSeq(PLANT_ALIASES[h].base, lower(b))
       /\ COMPATIBILITY[i].key = PLANT_ALIASES[g].base \o <<95>> \o PLANT_ALIASES[h].base}

\* C24: for a question of more than two tokens that contains 'cross' (and not
\* 'hybrid') and matches at least two plants, when the compatibility table
\* holds an entry for the pair of plants asked about the answer reports that
\* entry's success rate and notes; the same-zone heuristic is used only for
\* pairs that have no table entry.
C24_CrossUsesTable ==
  (/\ reply.kind = "chat" /\ reply.status = 200
   /\ LongQuestion
   /\ Contains(Lit.cross, lowered) /\ ~Contains(Lit.hybrid, lowered)
   /\ Len(intent.plants) >= 2) =>
    LET entries == PairEntries(intent.plants[1], intent.plants[2])
    IN /\ \A i \in entries :
            /\ \E k \in 1..Len(reply.text) :
                 reply.text[k].t = "cross_notes" /\ reply.text[k].n = i
            /\ CountParts(reply.text, "cross_success") = 1
            /\ \E k \in 1..Len(reply.text) :
                 reply.text[k].t = "cross_success" /\ reply.text[k].z = COMPATIBILITY[i].success
       /\ entries # {} => CountParts(reply.text, "cross_header") = 0
       /\ entries = {} => CountParts(reply.text, "cross_success") = 0

\* The last n entries of a history (all of it when it has fewer).
LastEntries(history, n) ==
  IF Len(history) > n THEN SubSeq(history, Len(history) - n + 1, Len(history)) ELSE history

\* What the history of the session of worker thread t holds after the step
\* in which its Chatbot.chat call returned the provider's text: the user
\* message and the reply at its end, at most 2 x chat_history_limit entries,
\* and those the most recent ones of the history the reply was appended to.
ChatLeavesHistory(t) ==
  LET before == sessions[threads[t].session_id].conversation_history
      after == sessions'[threads[t].session_id].conversation_history
      assistant == Entry("assistant", sess_reply'.response)
  IN /\ Len(after) >= 2
     /\ after[Len(after)] = assistant
     /\ after[Len(after) - 1] = Entry("user", threads[t].message)
     /\ Len(after) <= 2 * chat_history_limit
     /\ after = LastEntries(Append(before, assistant), 2 * chat_history_limit)

\* The Chatbot.chat call of worker thread t returns the provider's text in
\* this step.
ChatCompletes(t) ==
  /\ threads[t].pc = "provider"
  /\ threads'[t].pc = "idle"
  /\ sess_reply'.response # ApiErrorMessage

\* The history still ends with the user message of thread t's call: no other
\* request has changed the end of the session's history since the call
\* appended it.
Undisturbed(t) ==
  LET before == sessions[threads[t].session_id].conversation_history
  IN before # <<>> /\ before[Len(before)] = Entry("user", threads[t].message)

\* C25 as stated: after every Chatbot.chat call that completes without a
\* provider error, the history ends with the user message followed by the
\* assistant reply and holds at most 2 x chat_history_limit entries, the
\* oldest entries dropped and the most recent kept, also when a longer
\* history was installed from the request beforehand.
C25_HistoryAfterEveryChat ==
  [][\A t \in DOMAIN threads : ChatCompletes(t) => ChatLeavesHistory(t)]_vars

\* C25 amended: the same for every call during which no other request of the
\* session changed the history, so that it still ends with the call's user
\* message when the provider returns.
C25_HistoryAfterUndisturbedChat ==
  [][\A t \in DOMAIN threads :
       (ChatCompletes(t) /\ Undisturbed(t)) => ChatLeavesHistory(t)]_vars

\* C25 witness: a chat on a history longer than the limit has completed; the
\* session holds 2 x chat_history_limit entries, the first of them the fifth
\* entry of the installed history, the last two the exchange just made.
C25_LongHistoryCut ==
  /\ sess_request.op = "chat" /\ sess_request.step = "provider"
  /\ sess_reply.response = "provider text"
  /\ LET h == sessions[sess_request.session_id].conversation_history
     IN /\ Len(h) = 2 * chat_history_limit
        /\ h[1] = Entry("user", "old remark")
        /\ h[2] = Entry("assistant", "old question")
        /\ h[Len(h) - 1] = Entry("user", "question")
        /\ h[Len(h)] = Entry("assistant", "provider text")

\* C26: a Chatbot.chat call in which the provider raises returns the fixed
\* api_error message and leaves the conversation history as it was before the
\* call, so that after any sequence of chat and reset calls (none of them
\* still running) every user entry in the history is immediately followed by
\* its assistant entry.
C26_UserEntriesAnswered ==
  (\A t \in DOMAIN threads : threads[t].pc = "idle") =>
    /\ (sess_request.op = "chat" /\ sess_request.step = "provider") =>
         sess_reply.response \in {"provider text", ApiErrorMessage}
    /\ \A s \in SessionIds :
         LET h == HistoryOf(sessions, s)
         IN \A i \in 1..Len(h) :
              h[i].role = "user" => (i < Len(h) /\ h[i + 1].role = "assistant")

\* What a chat request handed to the Claude service leaves of its history.
ClaudeHistoryStep ==
  (api_request'.op = "chat" /\ called' = "claude" /\ claude_service.up) =>
    LET data == api_request'.data
        supplied == IF "conversation_history" \in data.keys THEN data.conversation_history ELSE <<>>
        sent == IF supplied # <<>>
                THEN SelectSeq(supplied, LAMBDA e : e.content \notin {"", "Thinking..."})
                ELSE claude_service.conversation_history
    IN /\ api_reply'.status \in {200, 500}
       /\ api_reply'.status = 500 => claude_service' = claude_service
       /\ api_reply'.status = 200 =>
            claude_service'.conversation_history =
              sent \o <<Entry("user", data.message), Entry("assistant", api_reply'.response)>>

LastWriteWins ==
  \A t \in DOMAIN threads :
    LET s == threads[t].session_id
    IN /\ (threads[t].pc = "install" /\ threads'[t].pc = "user") =>
            sessions'[s].conversation_history =
              (IF threads[t].conversation_history # <<>>
               THEN threads[t].conversation_history
               ELSE sessions[s].conversation_history)
       /\ (threads[t].pc = "user" /\ threads'[t].pc = "provider") =>
            sessions'[s].conversation_history =
              Append(sessions[s].conversation_history, Entry("user", threads[t].message))

\* C28: two concurrent POST /api/chat requests for the same session id are
\* not serialised and race with last-write-wins: each request replaces the
\* session's history with its own and appends its message to whatever
\* history the session holds when its chat runs, so the history installed by
\* one request can be replaced by the other's before the first request's chat
\* runs.
C28_LastWriteWins ==
  [][LastWriteWins]_vars

\* C28 witness: two requests of one session are in progress with different
\* supplied histories; the one whose chat has started has appended its
\* message to the history the other one installed.
C28_AnsweredAgainstOtherHistory ==
  \E t, u \in DOMAIN threads :
    /\ t # u
    /\ threads[t].session_id = threads[u].session_id
    /\ threads[t].pc = "provider"
    /\ threads[u].pc = "user"
    /\ threads[t].conversation_history # <<>>
    /\ threads[u].conversation_history # <<>>
    /\ threads[t].conversation_history # threads[u].conversation_history
    /\ sessions[threads[t].session_id].conversation_history =
         Append(threads[u].conversation_history, Entry("user", threads[t].message))

\* The ids of the sample records.
KnownIds ==
  {SAMPLE_PLANTS[i].id : i \in 1..Len(SAMPLE_PLANTS)}

\* C29: predict_hybridization returns None when either plant id is unknown;
\* otherwise the reported success_rate is an integer within 20..95 and the
\* compatibility label agrees with it: 'High' if and only if the reported
\* rate is at least 70, 'Moderate' if and only if it is from 50 to 69, 'Low'
\* if and only if it is below 50.
C29_PredictionLabelled ==
  probe.stage = 1 =>
    IF probe.plant_a_id \notin KnownIds \/ probe.plant_b_id \notin KnownIds
    THEN probe.result.is_none
    ELSE /\ ~probe.result.is_none
         /\ probe.result.success_rate \in 20..95
         /\ (probe.result.compatibility = "High") = (probe.result.success_rate >= 70)
         /\ (probe.result.compatibility = "Moderate") = (probe.result.success_rate \in 50..69)
         /\ (probe.result.compatibility = "Low") = (probe.result.success_rate < 50)

\* C29 witness: two different plants of one zone were given a prediction
\* whose rate lies strictly between the two limits.
C29_SameZonePairPredicted ==
  /\ probe.stage = 1
  /\ ~probe.result.is_none
  /\ probe.plant_a_id # probe.plant_b_id
  /\ probe.result.success_rate > 20
  /\ probe.result.success_rate < 95
  /\ probe.result.compatibility = "Low"

\* The names execute accepts in the registry r.
AcceptedNames(r) ==
  {name \in DOMAIN r.tools : r.tools[name] # "none"}

\* What a register or execute call leaves: get_definitions lists every
\* registered name once and no other name, and an execute call with an
\* unregistered name raised ValueError and changed neither tools nor the
\* definitions.
RegistryStep ==
  /\ \A name \in AcceptedNames(probe') :
       Cardinality({i \in 1..Len(probe'.tool_definitions) : probe'.tool_definitions[i] = name}) = 1
  /\ {probe'.tool_definitions[i] : i \in 1..Len(probe'.tool_definitions)} = AcceptedNames(probe')
  /\ (probe'.call = "execute" /\ probe'.name \notin AcceptedNames(probe)) =>
       /\ probe'.outcome = "ValueError"
       /\ probe'.tools = probe.tools
       /\ probe'.tool_definitions = probe.tool_definitions

\* C30: after any sequence of register and execute calls on a ToolRegistry,
\* get_definitions lists each registered tool name exactly once and lists
\* exactly the names that execute accepts; execute with an unregistered name
\* raises ValueError and changes neither the tool map nor the definitions.
C30_DefinitionsMatchTools ==
  [][RegistryStep]_vars
====
